---- MODULE Spec2Model ----
(***************************************************************************)
(* Verification model of the reconciliation core of the Obsidian S3 sync   *)
(* plugin: SyncEngine (orchestrator), SyncJournal, DiffEngine,             *)
(* ChangeTracker and the trigger path of SyncScheduler.                    *)
(*                                                                         *)
(* Strings are sequences of one-character strings, so substring,           *)
(* lastIndexOf, startsWith and the glob-to-regex conversion are modelled   *)
(* by what they do.  A content digest is a pair <<algorithm, content>>:    *)
(* hashContent is SHA-256 (hash-wasm), the object store's ETag of a        *)
(* single-part PutObject is an MD5 digest, so the two never compare equal  *)
(* as strings although both are functions of the content.                  *)
(*                                                                         *)
(* JavaScript runs handlers on one thread: the code between two awaits is  *)
(* one atomic step.  Timestamps are kept as ranks within one path (the     *)
(* side written last has rank 2, the other rank 1, a missing value is 0),  *)
(* which is all determineAction ever compares.                             *)
(***************************************************************************)
EXTENDS Integers, Sequences, FiniteSets, TLC

VARIABLES
    local,          \* vault: path -> [content, mtime]
    remote,         \* object store: key -> [content, lastModified]
    journal,        \* SyncJournal 'entries' store: path -> SyncJournalEntry
    isSyncing,      \* SyncEngine.isSyncing
    runs,           \* activations of SyncEngine.sync(): call id -> frame
    pendingChanges, \* ChangeTracker.pendingChanges: path -> PendingChange
    debounceFile,   \* file captured by the single outstanding debounce timer
    trackerTasks,   \* suspended ChangeTracker continuations
    isTracking,     \* ChangeTracker.isTracking
    edits,          \* number of environment changes so far (bounded)
    faults,         \* number of injected collaborator failures so far (bounded)
    stable,         \* the last run ended without error and nothing changed since
    planOut,        \* output of the planning functions (planning specification)
    input,          \* arguments of the function a function specification applies
    output,         \* what the function returned
    sched,          \* SyncScheduler fields and the callbacks it has invoked
    orphanTimers,   \* files of pending debounce timers debounceTimeoutId has lost
    db,             \* SyncJournal.db: TRUE while the database is open
    activeConflicts \* ConflictHandler.activeConflicts: path -> ConflictInfo

vars == <<local, remote, journal, isSyncing, runs, pendingChanges,
          debounceFile, trackerTasks, isTracking, edits, faults, stable,
          planOut,
          input, output, sched, orphanTimers, db, activeConflicts>>

\* the journal's database handle and the conflict handler's records
handlerVars == <<db, activeConflicts>>

\* no conflict is active
NoConflicts == <<>>

\* variables that belong to the other specifications of this module
specVars == <<planOut, input, output, sched, orphanTimers, handlerVars>>

(***************************************************************************)
(* Bounds of the model                                                     *)
(***************************************************************************)
MaxCalls == 2
MaxEdits == 1
MaxFaults == 1

CallIds == 1..MaxCalls

(***************************************************************************)
(* Strings                                                                 *)
(***************************************************************************)
EmptyStr == <<>>
Undefined == <<"undefined">>

Truthy(v) == v # EmptyStr /\ v # Undefined

SetMax(S) == CHOOSE m \in S : \A n \in S : n <= m

\* 1-based index of the last occurrence, 0 when there is none
LastIndexOf(s, ch) ==
    LET I == {i \in 1..Len(s) : s[i] = ch}
    IN IF I = {} THEN 0 ELSE SetMax(I)

StartsWith(s, prefix) ==
    /\ Len(s) >= Len(prefix)
    /\ SubSeq(s, 1, Len(prefix)) = prefix

\* substring(n) with a 0-based start index n
SubstringFrom(s, n) == SubSeq(s, n + 1, Len(s))

Includes(s, part) ==
    \E i \in 1..(Len(s) - Len(part) + 1) : SubSeq(s, i, i + Len(part) - 1) = part

LOCAL_PREFIX == <<"L", "O", "C", "A", "L", "_">>
REMOTE_PREFIX == <<"R", "E", "M", "O", "T", "E", "_">>

(***************************************************************************)
(* Digests                                                                 *)
(***************************************************************************)
Contents == {"c0", "c1", "c2"}

hashContent(content) == <<"sha256", content>>

\* version marker the object store reports for a single-part PutObject
ETag(content) == <<"md5", content>>

(***************************************************************************)
(* Key/value helpers                                                       *)
(***************************************************************************)
Put(f, k, v) == [x \in (DOMAIN f) \cup {k} |-> IF x = k THEN v ELSE f[x]]
Del(f, k) == [x \in (DOMAIN f) \ {k} |-> f[x]]
EmptyMap == [x \in {} |-> 0]

RECURSIVE SetToSeq(_)
SetToSeq(S) ==
    IF S = {} THEN <<>>
    ELSE LET x == CHOOSE y \in S : TRUE
         IN <<x>> \o SetToSeq(S \ {x})

SeqToSet(s) == {s[i] : i \in 1..Len(s)}

(***************************************************************************)
(* SyncJournal                                                             *)
(***************************************************************************)
DateNow == 2
NoEntry == [status |-> "undefined"]

getEntry(j, path) == IF path \in DOMAIN j THEN j[path] ELSE NoEntry

setEntry(j, entry) == Put(j, entry.path, entry)

deleteEntry(j, path) == Del(j, path)

getAllEntries(j) == SetToSeq({j[p] : p \in DOMAIN j})

markSynced(j, path, localHash, remoteHash, localMtime, remoteMtime) ==
    setEntry(j, [path |-> path,
                 localHash |-> localHash,
                 remoteHash |-> remoteHash,
                 localMtime |-> localMtime,
                 remoteMtime |-> remoteMtime,
                 syncedAt |-> DateNow,
                 status |-> "synced"])

markPending(j, path, localHash, localMtime) ==
    LET existing == getEntry(j, path)
        has == existing # NoEntry
    IN setEntry(j, [path |-> path,
                    localHash |-> localHash,
                    remoteHash |-> IF has /\ Truthy(existing.remoteHash)
                                   THEN existing.remoteHash ELSE EmptyStr,
                    localMtime |-> localMtime,
                    remoteMtime |-> IF has /\ existing.remoteMtime # 0
                                    THEN existing.remoteMtime ELSE 0,
                    syncedAt |-> IF has /\ existing.syncedAt # 0
                                 THEN existing.syncedAt ELSE 0,
                    status |-> "pending"])

\* a conflict recorded like an ordinary local edit
markConflictAsPending(j, path, localHash, remoteHash) ==
    markPending(j, path, localHash, DateNow)

markConflict(j, path, localHash, remoteHash) ==
    LET existing == getEntry(j, path)
        has == existing # NoEntry
    IN setEntry(j, [path |-> path,
                    localHash |-> localHash,
                    remoteHash |-> remoteHash,
                    localMtime |-> IF has /\ existing.localMtime # 0
                                   THEN existing.localMtime ELSE DateNow,
                    remoteMtime |-> IF has /\ existing.remoteMtime # 0
                                    THEN existing.remoteMtime ELSE DateNow,
                    syncedAt |-> IF has /\ existing.syncedAt # 0
                                 THEN existing.syncedAt ELSE 0,
                    status |-> "conflict"])

\* the put half of markDeleted; existing is the entry its getEntry returned
markDeletedPut(j, existing) ==
    IF existing # NoEntry
    THEN setEntry(j, [existing EXCEPT !.status = "deleted"])
    ELSE j

(***************************************************************************)
(* DiffEngine                                                              *)
(***************************************************************************)
\* a classifier without the case of a file that exists only remotely
computeThreeWayDiffNoRemoteCase(loc, rem, jrn) ==
    IF loc.exists /\ rem.exists THEN
        IF Truthy(loc.hash) /\ Truthy(rem.hash) /\ loc.hash = rem.hash
        THEN "unchanged"
        ELSE IF jrn = NoEntry THEN "both-changed"
        ELSE IF loc.hash # jrn.localHash /\ rem.hash # jrn.remoteHash THEN "both-changed"
        ELSE IF loc.hash # jrn.localHash THEN "local-only"
        ELSE IF rem.hash # jrn.remoteHash THEN "remote-only"
        ELSE "unchanged"
    ELSE IF loc.exists /\ ~rem.exists THEN
        IF jrn # NoEntry THEN "deleted-remote" ELSE "new-local"
    ELSE "unchanged"

computeThreeWayDiff(loc, rem, jrn) ==
    IF loc.exists /\ rem.exists THEN
        IF Truthy(loc.hash) /\ Truthy(rem.hash) /\ loc.hash = rem.hash
        THEN "unchanged"
        ELSE IF jrn = NoEntry THEN "both-changed"
        ELSE LET localChanged == loc.hash # jrn.localHash
                 remoteChanged == rem.hash # jrn.remoteHash
             IN IF localChanged /\ remoteChanged THEN "both-changed"
                ELSE IF localChanged THEN "local-only"
                ELSE IF remoteChanged THEN "remote-only"
                ELSE "unchanged"
    ELSE IF loc.exists /\ ~rem.exists THEN
        IF jrn # NoEntry THEN "deleted-remote" ELSE "new-local"
    ELSE IF ~loc.exists /\ rem.exists THEN
        IF jrn # NoEntry THEN "deleted-local" ELSE "new-remote"
    ELSE "unchanged"

\* a table with the two deletions exchanged
diffToActionDeletesSwapped(diff) ==
    CASE diff = "unchanged" -> "skip"
      [] diff \in {"local-only", "new-local"} -> "upload"
      [] diff \in {"remote-only", "new-remote"} -> "download"
      [] diff = "deleted-local" -> "delete-local"
      [] diff = "deleted-remote" -> "delete-remote"
      [] diff = "both-changed" -> "conflict"

diffToAction(diff) ==
    CASE diff = "unchanged" -> "skip"
      [] diff \in {"local-only", "new-local"} -> "upload"
      [] diff \in {"remote-only", "new-remote"} -> "download"
      [] diff = "deleted-local" -> "delete-remote"
      [] diff = "deleted-remote" -> "delete-local"
      [] diff = "both-changed" -> "conflict"

(***************************************************************************)
(* ConflictHandler: naming of conflict artifacts                           *)
(***************************************************************************)
isConflictFile(path) ==
    LET fileName == SubstringFrom(path, LastIndexOf(path, "/"))
    IN StartsWith(fileName, LOCAL_PREFIX) \/ StartsWith(fileName, REMOTE_PREFIX)

\* Undefined stands for null
getOriginalPath(conflictPath) ==
    LET lastSlash == LastIndexOf(conflictPath, "/")
        dir == SubSeq(conflictPath, 1, lastSlash - 1)
        fileName == SubstringFrom(conflictPath, lastSlash)
        prefixLen == IF StartsWith(fileName, LOCAL_PREFIX) THEN Len(LOCAL_PREFIX)
                     ELSE IF StartsWith(fileName, REMOTE_PREFIX) THEN Len(REMOTE_PREFIX)
                     ELSE 0
        originalName == SubstringFrom(fileName, prefixLen)
    IN IF prefixLen = 0 THEN Undefined
       ELSE IF dir # EmptyStr THEN dir \o <<"/">> \o originalName
       ELSE originalName

(***************************************************************************)
(* SyncEngine: planning                                                    *)
(***************************************************************************)
determineAction(state) ==
    LET localChanged == Truthy(state.journalLocalHash)
                        /\ state.localHash # state.journalLocalHash
        remoteChanged == Truthy(state.journalRemoteHash)
                         /\ state.remoteHash # state.journalRemoteHash
    IN IF state.localExists /\ state.remoteExists THEN
           IF Truthy(state.localHash) /\ Truthy(state.remoteHash)
              /\ state.localHash = state.remoteHash
           THEN "skip"
           ELSE IF localChanged /\ remoteChanged THEN "conflict"
           ELSE IF localChanged THEN "upload"
           ELSE IF remoteChanged THEN "download"
           ELSE IF ~Truthy(state.journalLocalHash) THEN
               IF state.localMtime > state.remoteMtime
               THEN "upload" ELSE "download"
           ELSE "skip"
       ELSE IF state.localExists /\ ~state.remoteExists THEN
           IF Truthy(state.journalRemoteHash) THEN "delete-local" ELSE "upload"
       ELSE IF ~state.localExists /\ state.remoteExists THEN
           IF Truthy(state.journalLocalHash) THEN "delete-remote" ELSE "download"
       ELSE "skip"

\* plan over the state map, in the insertion order of the map
generateSyncPlan(order, states) ==
    LET acts == [i \in 1..Len(order) |->
                    [path |-> order[i], action |-> determineAction(states[order[i]])]]
    IN SelectSeq(acts, LAMBDA it : it.action # "skip")

(***************************************************************************)
(* Exclude patterns: glob -> regular expression -> match                   *)
(***************************************************************************)
\* String.replace(/\./g, '\\.')
RECURSIVE ReplaceDots(_)
ReplaceDots(p) ==
    IF p = <<>> THEN <<>>
    ELSE IF Head(p) = "." THEN <<"\\", ".">> \o ReplaceDots(Tail(p))
    ELSE <<Head(p)>> \o ReplaceDots(Tail(p))

\* String.replace(/\*\*/g, '.*')
RECURSIVE ReplaceDoubleStars(_)
ReplaceDoubleStars(p) ==
    IF p = <<>> THEN <<>>
    ELSE IF Len(p) >= 2 /\ p[1] = "*" /\ p[2] = "*"
         THEN <<".", "*">> \o ReplaceDoubleStars(SubSeq(p, 3, Len(p)))
    ELSE <<Head(p)>> \o ReplaceDoubleStars(Tail(p))

\* String.replace(/\*/g, '[^/]*')
RECURSIVE ReplaceStars(_)
ReplaceStars(p) ==
    IF p = <<>> THEN <<>>
    ELSE IF Head(p) = "*"
         THEN <<"[", "^", "/", "]", "*">> \o ReplaceStars(Tail(p))
    ELSE <<Head(p)>> \o ReplaceStars(Tail(p))

globToRegexSource(pattern) == ReplaceStars(ReplaceDoubleStars(ReplaceDots(pattern)))

NonSlashStar == <<"[", "^", "/", "]", "*">>

\* RegExp('^' + source + '$').test(s): source[i..] matches s[k..] to its end
RECURSIVE RegexMatch(_, _, _, _)
RegexMatch(src, i, s, k) ==
    IF i > Len(src) THEN k = Len(s) + 1
    ELSE IF src[i] = "\\" /\ i < Len(src) THEN
        /\ k <= Len(s)
        /\ s[k] = src[i + 1]
        /\ RegexMatch(src, i + 2, s, k + 1)
    ELSE IF StartsWith(SubSeq(src, i, Len(src)), NonSlashStar) THEN
        \E m \in k..(Len(s) + 1) :
            /\ \A n \in k..(m - 1) : s[n] # "/"
            /\ RegexMatch(src, i + 5, s, m)
    ELSE IF src[i] = "." THEN
        /\ k <= Len(s)
        /\ RegexMatch(src, i + 1, s, k + 1)
    ELSE
        /\ k <= Len(s)
        /\ s[k] = src[i]
        /\ RegexMatch(src, i + 1, s, k + 1)

\* settings.excludePatterns of the modelled vault
excludePatterns == << <<"t", "/", "*">> >>

\* patterns.some(pattern => new RegExp('^' + translated + '$').test(path))
matchesAny(patterns, path) ==
    \E n \in 1..Len(patterns) :
        RegexMatch(globToRegexSource(patterns[n]), 1, path, 1)

shouldExclude(path) == matchesAny(excludePatterns, path)

(***************************************************************************)
(* SyncEngine: key mapping                                                 *)
(***************************************************************************)
syncPrefix == <<"v">>
INTERNAL_DIR == <<".", "s", "/">>

localPathToS3Key(path) == syncPrefix \o <<"/">> \o path

\* the relative path, or Undefined (null) when the prefix does not match
s3KeyToLocalPath(key) ==
    LET prefix == syncPrefix \o <<"/">>
    IN IF StartsWith(key, prefix) THEN SubstringFrom(key, Len(prefix)) ELSE Undefined

\* S3Provider.listObjects(prefix): the objects whose key starts with prefix
listObjects(rem, prefix) == {k \in DOMAIN rem : StartsWith(k, prefix)}

(***************************************************************************)
(* The stores as one value, so that a handler is a function of it          *)
(*   w = [local, remote, journal, pendingChanges, debounceFile,            *)
(*        trackerTasks, isTracking]                                        *)
(***************************************************************************)
NoFile == Undefined

\* a write on one side makes the other side of the same path the older one
OlderAt(store, k, field) ==
    IF k \in DOMAIN store THEN [store EXCEPT ![k][field] = 1] ELSE store

(***************************************************************************)
(* ChangeTracker                                                           *)
(***************************************************************************)
PendingChange(path, type, oldPath) ==
    [path |-> path, type |-> type, timestamp |-> DateNow, oldPath |-> oldPath]

addPendingChange(ledger, change) ==
    IF change.path \in DOMAIN ledger
       /\ ledger[change.path].type \in {"create", "modify"}
    THEN Put(ledger, change.path,
             [ledger[change.path] EXCEPT
                 !.timestamp = change.timestamp,
                 !.type = IF change.type = "modify" THEN "modify" ELSE @])
    ELSE Put(ledger, change.path, change)

UpdateTask(path) == [kind |-> "updateJournalForFile", path |-> path, existing |-> NoEntry]
DeletedTask(path, existing) == [kind |-> "markDeleted", path |-> path, existing |-> existing]

\* markDeleted reads the entry at once and writes it back in a continuation
markDeletedBegin(w, path) ==
    LET existing == getEntry(w.journal, path)
    IN IF existing = NoEntry THEN w
       ELSE [w EXCEPT !.trackerTasks = @ \cup {DeletedTask(path, existing)}]

onFileCreate(w, path) ==
    IF shouldExclude(path) THEN w
    ELSE [w EXCEPT
            !.pendingChanges = addPendingChange(@, PendingChange(path, "create", Undefined)),
            !.trackerTasks = @ \cup {UpdateTask(path)}]

\* a modify handler that does not consult the exclude list
onFileModifyUnfiltered(w, path) ==
    [w EXCEPT
        !.pendingChanges = addPendingChange(@, PendingChange(path, "modify", Undefined)),
        !.debounceFile = path]

onFileModify(w, path) ==
    IF shouldExclude(path) THEN w
    ELSE [w EXCEPT
            !.pendingChanges = addPendingChange(@, PendingChange(path, "modify", Undefined)),
            !.debounceFile = path]

onFileDelete(w, path) ==
    IF shouldExclude(path) THEN w
    ELSE markDeletedBegin(
            [w EXCEPT !.pendingChanges =
                addPendingChange(@, PendingChange(path, "delete", Undefined))],
            path)

onFileRename(w, path, oldPath) ==
    LET excludeOld == shouldExclude(oldPath)
        excludeNew == shouldExclude(path)
    IN IF ~excludeOld /\ ~excludeNew THEN
           [w EXCEPT
               !.pendingChanges = addPendingChange(@, PendingChange(path, "rename", oldPath)),
               !.journal = deleteEntry(@, oldPath),
               !.trackerTasks = @ \cup {UpdateTask(path)}]
       ELSE IF ~excludeOld /\ excludeNew THEN
           markDeletedBegin(
               [w EXCEPT !.pendingChanges =
                   addPendingChange(@, PendingChange(oldPath, "delete", Undefined))],
               oldPath)
       ELSE IF excludeOld /\ ~excludeNew THEN
           [w EXCEPT
               !.pendingChanges = addPendingChange(@, PendingChange(path, "create", Undefined)),
               !.trackerTasks = @ \cup {UpdateTask(path)}]
       ELSE w

\* read, hash, markPending; a failed read is caught and logged
updateJournalForFile(w, path) ==
    IF path \notin DOMAIN w.local THEN w
    ELSE [w EXCEPT !.journal =
            markPending(@, path, hashContent(w.local[path].content), w.local[path].mtime)]

(***************************************************************************)
(* Vault operations; the vault notifies the handlers registered by         *)
(* startTracking of every change, whoever made it                          *)
(***************************************************************************)
vaultCreate(w, path, content) ==
    LET w1 == [w EXCEPT
                  !.local = Put(@, path, [content |-> content, mtime |-> 2]),
                  !.remote = OlderAt(@, localPathToS3Key(path), "lastModified")]
    IN IF w.isTracking THEN onFileCreate(w1, path) ELSE w1

vaultModify(w, path, content) ==
    LET w1 == [w EXCEPT
                  !.local = Put(@, path, [content |-> content, mtime |-> 2]),
                  !.remote = OlderAt(@, localPathToS3Key(path), "lastModified")]
    IN IF w.isTracking THEN onFileModify(w1, path) ELSE w1

vaultTrash(w, path) ==
    LET w1 == [w EXCEPT !.local = Del(@, path)]
    IN IF w.isTracking THEN onFileDelete(w1, path) ELSE w1

vaultRename(w, oldPath, newPath) ==
    LET w1 == [w EXCEPT !.local = Put(Del(@, oldPath), newPath, w.local[oldPath])]
    IN IF w.isTracking THEN onFileRename(w1, newPath, oldPath) ELSE w1

(***************************************************************************)
(* Object store operations                                                 *)
(***************************************************************************)
s3Upload(w, key, content) ==
    [w EXCEPT
        !.remote = Put(@, key, [content |-> content, lastModified |-> 2]),
        !.local = OlderAt(@, s3KeyToLocalPath(key), "mtime")]

s3Delete(w, key) == [w EXCEPT !.remote = Del(@, key)]

(***************************************************************************)
(* SyncEngine: executing one plan item.  f is the index of the             *)
(* collaborator call of the action that rejects (0: none does).  The       *)
(* result is the stores afterwards and whether the action returned         *)
(* normally (ok) or threw.                                                 *)
(***************************************************************************)
Res(w, ok) == [w |-> w, ok |-> ok]

uploadFile(w, path, f) ==
    IF path \notin DOMAIN w.local THEN Res(w, FALSE)        \* File not found
    ELSE IF f = 1 THEN Res(w, FALSE)                        \* vault.read
    ELSE LET file == w.local[path]
             hash == hashContent(file.content)
             w1 == s3Upload(w, localPathToS3Key(path), file.content)
         IN IF f = 2 THEN Res(w, FALSE)                     \* s3Provider.uploadFile
            ELSE IF f = 3 THEN Res(w1, FALSE)               \* journal.markSynced
            ELSE Res([w1 EXCEPT !.journal =
                        markSynced(@, path, hash, hash, file.mtime, DateNow)], TRUE)

downloadFile(w, path, f) ==
    LET key == localPathToS3Key(path)
    IN IF key \notin DOMAIN w.remote \/ f = 1 THEN Res(w, FALSE)   \* downloadFileAsText
       ELSE LET content == w.remote[key].content
                w1 == IF path \in DOMAIN w.local
                      THEN vaultModify(w, path, content)
                      ELSE vaultCreate(w, path, content)
                hash == hashContent(content)
            IN IF f = 2 THEN Res(w, FALSE)                  \* vault.modify / vault.create
               ELSE IF f = 3 THEN Res(w1, FALSE)            \* journal.markSynced
               ELSE Res([w1 EXCEPT !.journal =
                           markSynced(@, path, hash, hash, w1.local[path].mtime, DateNow)],
                        TRUE)

deleteLocalFile(w, path, f) ==
    LET exists == path \in DOMAIN w.local
        w1 == IF exists THEN vaultTrash(w, path) ELSE w
    IN IF exists /\ f = 1 THEN Res(w, FALSE)                \* vault.trash
       ELSE IF f = 2 THEN Res(w1, FALSE)                    \* journal.deleteEntry
       ELSE Res([w1 EXCEPT !.journal = deleteEntry(@, path)], TRUE)

deleteRemoteFile(w, path, f) ==
    LET w1 == s3Delete(w, localPathToS3Key(path))
    IN IF f = 1 THEN Res(w, FALSE)                          \* s3Provider.deleteFile
       ELSE IF f = 2 THEN Res(w1, FALSE)                    \* journal.deleteEntry
       ELSE Res([w1 EXCEPT !.journal = deleteEntry(@, path)], TRUE)

\* the LOCAL_ and REMOTE_ paths handleConflict computes
conflictLocalPath(path) ==
    LET dir == SubSeq(path, 1, LastIndexOf(path, "/") - 1)
        fileName == SubstringFrom(path, LastIndexOf(path, "/"))
    IN IF dir # EmptyStr THEN dir \o <<"/">> \o LOCAL_PREFIX \o fileName
       ELSE LOCAL_PREFIX \o fileName

conflictRemotePath(path) ==
    LET dir == SubSeq(path, 1, LastIndexOf(path, "/") - 1)
        fileName == SubstringFrom(path, LastIndexOf(path, "/"))
    IN IF dir # EmptyStr THEN dir \o <<"/">> \o REMOTE_PREFIX \o fileName
       ELSE REMOTE_PREFIX \o fileName

handleConflict(w, path, f) ==
    IF path \notin DOMAIN w.local THEN Res(w, TRUE)         \* returns without a word
    ELSE IF f = 1 THEN Res(w, FALSE)                        \* vault.read
    ELSE LET localPath == conflictLocalPath(path)
             remotePath == conflictRemotePath(path)
             key == localPathToS3Key(path)
             localContent == w.local[path].content
             w1 == vaultRename(w, path, localPath)
         IN IF localPath \in DOMAIN w.local \/ f = 2 THEN Res(w, FALSE)   \* vault.rename
            ELSE IF key \notin DOMAIN w.remote \/ f = 3 THEN Res(w1, FALSE) \* downloadFileAsText
            ELSE LET remoteContent == w.remote[key].content
                     w2 == vaultCreate(w1, remotePath, remoteContent)
                 IN IF remotePath \in DOMAIN w1.local \/ f = 4
                    THEN Res(w1, FALSE)                     \* vault.create
                    ELSE IF f = 5 THEN Res(w2, FALSE)       \* journal.markConflict
                    ELSE Res([w2 EXCEPT !.journal =
                                markConflict(@, path, hashContent(localContent),
                                             hashContent(remoteContent))], TRUE)

executeAction(w, item, f) ==
    CASE item.action = "upload" -> uploadFile(w, item.path, f)
      [] item.action = "download" -> downloadFile(w, item.path, f)
      [] item.action = "delete-local" -> deleteLocalFile(w, item.path, f)
      [] item.action = "delete-remote" -> deleteRemoteFile(w, item.path, f)
      [] item.action = "conflict" -> handleConflict(w, item.path, f)

\* number of collaborator calls an action awaits
CallsOf(action) ==
    CASE action = "upload" -> 3
      [] action = "download" -> 3
      [] action = "delete-local" -> 2
      [] action = "delete-remote" -> 2
      [] action = "conflict" -> 5

(***************************************************************************)
(* SyncEngine: building the file state map                                 *)
(***************************************************************************)
LocalFileState(path, file) ==
    [path |-> path, localExists |-> TRUE, remoteExists |-> FALSE,
     localHash |-> hashContent(file.content), remoteHash |-> Undefined,
     localMtime |-> file.mtime, remoteMtime |-> 0,
     journalLocalHash |-> Undefined, journalRemoteHash |-> Undefined,
     journalSyncedAt |-> 0]

RemoteFileState(path, obj) ==
    [path |-> path, localExists |-> FALSE, remoteExists |-> TRUE,
     localHash |-> Undefined, remoteHash |-> ETag(obj.content),
     localMtime |-> 0, remoteMtime |-> obj.lastModified,
     journalLocalHash |-> Undefined, journalRemoteHash |-> Undefined,
     journalSyncedAt |-> 0]

JournalFileState(entry) ==
    [path |-> entry.path, localExists |-> FALSE, remoteExists |-> FALSE,
     localHash |-> Undefined, remoteHash |-> Undefined,
     localMtime |-> 0, remoteMtime |-> 0,
     journalLocalHash |-> entry.localHash, journalRemoteHash |-> entry.remoteHash,
     journalSyncedAt |-> entry.syncedAt]

\* the map is kept as its insertion order and its contents
StateMap(order, states) == [order |-> order, states |-> states]

buildLocal(loc) ==
    LET files == {p \in DOMAIN loc : ~shouldExclude(p)}
    IN StateMap(SetToSeq(files), [p \in files |-> LocalFileState(p, loc[p])])

buildRemote(m, rem) ==
    LET keys == {k \in listObjects(rem, syncPrefix \o <<"/">>) :
                    /\ ~Includes(k, INTERNAL_DIR)
                    /\ Truthy(s3KeyToLocalPath(k))
                    /\ ~shouldExclude(s3KeyToLocalPath(k))}
        paths == {s3KeyToLocalPath(k) : k \in keys}
        fresh == paths \ DOMAIN m.states
    IN StateMap(m.order \o SetToSeq(fresh),
                [p \in (DOMAIN m.states) \cup paths |->
                    IF p \notin paths THEN m.states[p]
                    ELSE IF p \in DOMAIN m.states
                    THEN [m.states[p] EXCEPT
                            !.remoteExists = TRUE,
                            !.remoteMtime = rem[localPathToS3Key(p)].lastModified,
                            !.remoteHash = ETag(rem[localPathToS3Key(p)].content)]
                    ELSE RemoteFileState(p, rem[localPathToS3Key(p)])])

buildJournal(m, j) ==
    LET fresh == (DOMAIN j) \ DOMAIN m.states
    IN StateMap(m.order \o SetToSeq(fresh),
                [p \in (DOMAIN m.states) \cup DOMAIN j |->
                    IF p \notin DOMAIN j THEN m.states[p]
                    ELSE IF p \in DOMAIN m.states
                    THEN [m.states[p] EXCEPT
                            !.journalLocalHash = j[p].localHash,
                            !.journalRemoteHash = j[p].remoteHash,
                            !.journalSyncedAt = j[p].syncedAt]
                    ELSE JournalFileState(j[p])])

(***************************************************************************)
(* SyncEngine.sync(): one frame per activation                             *)
(***************************************************************************)
EmptyResult ==
    [success |-> FALSE, filesUploaded |-> 0, filesDownloaded |-> 0,
     filesDeleted |-> 0, conflicts |-> <<>>, errors |-> <<>>]

IdleFrame ==
    [pc |-> "idle", map |-> StateMap(<<>>, EmptyMap), plan |-> <<>>,
     idx |-> 0, result |-> EmptyResult, log |-> <<>>,
     quietBefore |-> FALSE, dirty |-> FALSE]

ActivePcs == {"enumLocal", "enumRemote", "enumJournal", "exec"}

\* a settled promise resumes its caller before any other task runs
NoneReturning == \A c \in CallIds : runs[c].pc \notin {"done", "rejected"}

\* a ChangeTracker continuation waits for a file read or a journal request of
\* a few milliseconds: it has run before the next trigger or the next edit
TrackerSettled == trackerTasks = {}

World ==
    [local |-> local, remote |-> remote, journal |-> journal,
     pendingChanges |-> pendingChanges, debounceFile |-> debounceFile,
     trackerTasks |-> trackerTasks, isTracking |-> isTracking]

SetWorld(w) ==
    /\ local' = w.local
    /\ remote' = w.remote
    /\ journal' = w.journal
    /\ pendingChanges' = w.pendingChanges
    /\ debounceFile' = w.debounceFile
    /\ trackerTasks' = w.trackerTasks
    /\ isTracking' = w.isTracking

\* a guard that lets every call through
syncRejectsNever(flag) == FALSE

\* the guard at the head of sync(): TRUE when the call is turned away
syncRejects(flag) == flag

\* sync() from its head to its first await
SyncHead(c) ==
    /\ NoneReturning
    /\ TrackerSettled
    /\ runs[c].pc = "idle"
    /\ \A d \in CallIds : d < c => runs[d].pc # "idle"
    /\ IF syncRejects(isSyncing)
       THEN /\ runs' = [runs EXCEPT ![c] = [IdleFrame EXCEPT !.pc = "rejected"]]
            /\ UNCHANGED isSyncing
       ELSE /\ isSyncing' = TRUE
            /\ runs' = [runs EXCEPT ![c] =
                          [IdleFrame EXCEPT !.pc = "enumLocal", !.quietBefore = stable]]
    /\ UNCHANGED <<local, remote, journal, pendingChanges, debounceFile,
                   trackerTasks, isTracking, edits, faults, stable>>

\* a call of sync() by a caller that keeps no state of its own
SyncEnter(c) == SyncHead(c) /\ UNCHANGED specVars

\* a direct call of SyncEngine.sync()
SyncCall(c) == SyncEnter(c)

\* SyncScheduler.triggerSync: returns at once while a run is in progress
TriggerSync(c, trigger) ==
    /\ ~isSyncing
    /\ SyncEnter(c)

\* a clear that keeps the ledger when it is not empty
clearPendingChangesNot(ledger) == ledger

\* ChangeTracker.clearPendingChanges, called at the tail of sync()
clearPendingChanges(ledger) == EmptyMap

\* a finally block that leaves the flag as it finds it
releaseFlagNot(flag) == flag

\* the finally block of sync(): this.isSyncing = false
releaseFlag(flag) == FALSE

\* the tail of sync(): clear the ledger, set success, release the flag
finishResult(result) == [result EXCEPT !.success = (Len(result.errors) = 0)]

EnumLocal(c) ==
    /\ NoneReturning
    /\ runs[c].pc = "enumLocal"
    /\ runs' = [runs EXCEPT ![c].pc = "enumRemote", ![c].map = buildLocal(local)]
    /\ UNCHANGED <<local, remote, journal, isSyncing, pendingChanges, debounceFile,
                   trackerTasks, isTracking, edits, faults, stable, specVars>>

EnumRemote(c) ==
    /\ NoneReturning
    /\ runs[c].pc = "enumRemote"
    /\ runs' = [runs EXCEPT ![c].pc = "enumJournal",
                            ![c].map = buildRemote(runs[c].map, remote)]
    /\ UNCHANGED <<local, remote, journal, isSyncing, pendingChanges, debounceFile,
                   trackerTasks, isTracking, edits, faults, stable, specVars>>

\* getAllEntries resolves; the plan is generated in the same step, and a run
\* with an empty plan runs through to its return
EnumJournal(c) ==
    /\ NoneReturning
    /\ runs[c].pc = "enumJournal"
    /\ LET m == buildJournal(runs[c].map, journal)
           plan == generateSyncPlan(m.order, m.states)
       IN IF plan = <<>>
          THEN /\ runs' = [runs EXCEPT ![c].pc = "done", ![c].map = m, ![c].plan = plan,
                                       ![c].result = finishResult(@)]
               /\ pendingChanges' = clearPendingChanges(pendingChanges)
               /\ isSyncing' = releaseFlag(isSyncing)
               /\ stable' = ~runs[c].dirty
          ELSE /\ runs' = [runs EXCEPT ![c].pc = "exec", ![c].map = m, ![c].plan = plan,
                                       ![c].idx = 1]
               /\ UNCHANGED <<pendingChanges, isSyncing, stable>>
    /\ UNCHANGED <<local, remote, journal, debounceFile, trackerTasks, isTracking,
                   edits, faults, specVars>>

\* an outer catch that records the failure like a failed action
enumErrorRecoverable == [path |-> EmptyStr, action |-> "skip", recoverable |-> TRUE]

\* the error the outer catch of sync() records
enumError == [path |-> EmptyStr, action |-> "skip", recoverable |-> FALSE]

\* a collaborator call of buildFileStateMap rejects: the outer catch
EnumFail(c) ==
    /\ NoneReturning
    /\ runs[c].pc \in {"enumLocal", "enumRemote", "enumJournal"}
    /\ faults < MaxFaults
    /\ faults' = faults + 1
    /\ runs' = [runs EXCEPT ![c].pc = "done",
                            ![c].result.errors =
                                Append(@, enumError)]
    /\ isSyncing' = releaseFlag(isSyncing)
    /\ stable' = FALSE
    /\ UNCHANGED <<local, remote, journal, pendingChanges, debounceFile,
                   trackerTasks, isTracking, edits, specVars>>

\* a bookkeeping that counts a deletion in the store only
accountLocalDeleteUncounted(result, item, ok) ==
    IF ~ok THEN [result EXCEPT !.errors =
                    Append(@, [path |-> item.path, action |-> item.action,
                               recoverable |-> TRUE])]
    ELSE CASE item.action = "upload" -> [result EXCEPT !.filesUploaded = @ + 1]
           [] item.action = "download" -> [result EXCEPT !.filesDownloaded = @ + 1]
           [] item.action = "delete-remote" -> [result EXCEPT !.filesDeleted = @ + 1]
           [] item.action = "delete-local" -> result
           [] item.action = "conflict" -> [result EXCEPT !.conflicts = Append(@, item.path)]

\* the bookkeeping of the loop body after executeAction returned or threw
account(result, item, ok) ==
    IF ~ok THEN [result EXCEPT !.errors =
                    Append(@, [path |-> item.path, action |-> item.action,
                               recoverable |-> TRUE])]
    ELSE CASE item.action = "upload" -> [result EXCEPT !.filesUploaded = @ + 1]
           [] item.action = "download" -> [result EXCEPT !.filesDownloaded = @ + 1]
           [] item.action \in {"delete-local", "delete-remote"} ->
                 [result EXCEPT !.filesDeleted = @ + 1]
           [] item.action = "conflict" -> [result EXCEPT !.conflicts = Append(@, item.path)]

\* a loop that gives up at the first item that throws
loopDoneOnError(idx, len, ok) == idx = len \/ ~ok

\* the loop over the plan ends after its last item, whether or not the item threw
loopDone(idx, len, ok) == idx = len

\* one iteration of the loop over the plan; after the last one the run
\* clears the ledger and returns
ExecItem(c, f) ==
    /\ NoneReturning
    /\ runs[c].pc = "exec"
    /\ LET item == runs[c].plan[runs[c].idx]
           r == executeAction(World, item, f)
           last == loopDone(runs[c].idx, Len(runs[c].plan), r.ok)
           result == account(runs[c].result, item, r.ok)
       IN /\ f \in 0..CallsOf(item.action)
          /\ f # 0 => (faults < MaxFaults /\ ~r.ok)
          /\ faults' = IF f # 0 THEN faults + 1 ELSE faults
          /\ SetWorld(IF last THEN [r.w EXCEPT !.pendingChanges = clearPendingChanges(@)] ELSE r.w)
          /\ runs' = [runs EXCEPT
                        ![c].log = Append(@, [path |-> item.path, action |-> item.action,
                                              ok |-> r.ok]),
                        ![c].idx = @ + 1,
                        ![c].result = IF last THEN finishResult(result) ELSE result,
                        ![c].pc = IF last THEN "done" ELSE "exec"]
          /\ isSyncing' = IF last THEN releaseFlag(isSyncing) ELSE isSyncing
          /\ stable' = IF last THEN (Len(result.errors) = 0 /\ ~runs[c].dirty) ELSE stable
    /\ UNCHANGED <<edits, specVars>>

\* the caller takes the result (or the rejection)
Return(c) ==
    /\ runs[c].pc \in {"done", "rejected"}
    /\ runs' = [runs EXCEPT ![c] = IdleFrame]
    /\ UNCHANGED <<local, remote, journal, isSyncing, pendingChanges, debounceFile,
                   trackerTasks, isTracking, edits, faults, stable, specVars>>

(***************************************************************************)
(* Environment: the user edits the vault, another device writes the store  *)
(***************************************************************************)
PathA == <<"d", "/", "a">>
EditPaths == {PathA}
UserContents == {"c1"}
RemoteContents == {"c2"}
ExcludedPath == <<"t", "/", "x">>
InternalKey == syncPrefix \o <<"/">> \o INTERNAL_DIR \o <<"m">>

\* an environment change ends the quiet period of every run in progress
Disturbed == [c \in CallIds |->
                 IF runs[c].pc \in ActivePcs THEN [runs[c] EXCEPT !.dirty = TRUE]
                 ELSE runs[c]]

EnvStep ==
    /\ NoneReturning
    /\ TrackerSettled
    /\ edits < MaxEdits
    /\ edits' = edits + 1
    /\ stable' = FALSE
    /\ runs' = Disturbed
    /\ UNCHANGED <<isSyncing, faults, specVars>>

UserWrite(path, content) ==
    /\ EnvStep
    /\ path \in DOMAIN local => local[path].content # content
    /\ SetWorld(IF path \in DOMAIN local
                THEN vaultModify(World, path, content)
                ELSE vaultCreate(World, path, content))

UserDelete(path) ==
    /\ EnvStep
    /\ path \in DOMAIN local
    /\ SetWorld(vaultTrash(World, path))

RemoteWrite(path, content) ==
    /\ EnvStep
    /\ LET key == localPathToS3Key(path)
       IN /\ key \in DOMAIN remote => remote[key].content # content
          /\ SetWorld(s3Upload(World, key, content))

RemoteDelete(path) ==
    /\ EnvStep
    /\ localPathToS3Key(path) \in DOMAIN remote
    /\ SetWorld(s3Delete(World, localPathToS3Key(path)))

(***************************************************************************)
(* ChangeTracker: the debounce timer and suspended continuations            *)
(***************************************************************************)
DebounceFire ==
    /\ NoneReturning
    /\ debounceFile # NoFile
    /\ SetWorld([updateJournalForFile(World, debounceFile) EXCEPT !.debounceFile = NoFile])
    /\ UNCHANGED <<isSyncing, runs, edits, faults, stable, specVars>>

TrackerTask(t) ==
    /\ NoneReturning
    /\ t \in trackerTasks
    /\ LET w == [World EXCEPT !.trackerTasks = @ \ {t}]
       IN SetWorld(IF t.kind = "markDeleted"
                   THEN [w EXCEPT !.journal = markDeletedPut(@, t.existing)]
                   ELSE updateJournalForFile(w, t.path))
    /\ UNCHANGED <<isSyncing, runs, edits, faults, stable, specVars>>

(***************************************************************************)
(* Specification of the running plugin                                     *)
(***************************************************************************)
File(content, mtime) == [content |-> content, mtime |-> mtime]
Object(content, lastModified) == [content |-> content, lastModified |-> lastModified]

\* situations a path can be in when the plugin starts
InitSituations ==
    {"absent", "localOnly", "remoteOnly", "bothNoJournal", "synced", "diverged"}

InitLocal(path, sit) ==
    CASE sit = "localOnly" -> (path :> File("c1", 2))
      [] sit = "bothNoJournal" -> (path :> File("c1", 1))
      [] sit = "synced" -> (path :> File("c0", 1))
      [] sit = "diverged" -> (path :> File("c1", 1))
      [] OTHER -> EmptyMap

InitRemote(path, sit) ==
    CASE sit = "remoteOnly" -> (localPathToS3Key(path) :> Object("c2", 2))
      [] sit = "bothNoJournal" -> (localPathToS3Key(path) :> Object("c2", 2))
      [] sit = "synced" -> (localPathToS3Key(path) :> Object("c0", 2))
      [] sit = "diverged" -> (localPathToS3Key(path) :> Object("c2", 2))
      [] OTHER -> EmptyMap

InitJournal(path, sit) ==
    IF sit \in {"synced", "diverged"}
    THEN markSynced(EmptyMap, path, hashContent("c0"), hashContent("c0"), 1, DateNow)
    ELSE EmptyMap

Init ==
    \E sa \in InitSituations :
        /\ local = InitLocal(PathA, sa) @@ (ExcludedPath :> File("c0", 2))
        /\ remote = InitRemote(PathA, sa) @@ (InternalKey :> Object("c0", 2))
        /\ journal = InitJournal(PathA, sa)
        /\ isSyncing = FALSE
        /\ runs = [c \in CallIds |-> IdleFrame]
        /\ pendingChanges = EmptyMap
        /\ debounceFile = NoFile
        /\ trackerTasks = {}
        /\ isTracking \in BOOLEAN
        /\ edits = 0
        /\ faults = 0
        /\ stable = FALSE
        /\ planOut = <<>>
        /\ input = <<>>
        /\ output = <<>>
        /\ sched = <<>>
        /\ orphanTimers = <<>>
        /\ db = TRUE
        /\ activeConflicts = NoConflicts

Next ==
    \/ \E c \in CallIds : SyncCall(c)
    \/ \E c \in CallIds, t \in {"manual", "scheduled", "startup"} : TriggerSync(c, t)
    \/ \E c \in CallIds : EnumLocal(c)
    \/ \E c \in CallIds : EnumRemote(c)
    \/ \E c \in CallIds : EnumJournal(c)
    \/ \E c \in CallIds : EnumFail(c)
    \/ \E c \in CallIds, f \in 0..5 : ExecItem(c, f)
    \/ \E c \in CallIds : Return(c)
    \/ \E p \in EditPaths, ct \in UserContents : UserWrite(p, ct)
    \/ \E p \in EditPaths : UserDelete(p)
    \/ \E p \in EditPaths, ct \in RemoteContents : RemoteWrite(p, ct)
    \/ \E p \in EditPaths : RemoteDelete(p)
    \/ DebounceFire
    \/ \E t \in trackerTasks : TrackerTask(t)

Spec == Init /\ [][Next]_vars

TypeOK ==
    /\ isSyncing \in BOOLEAN
    /\ \A c \in CallIds : runs[c].pc \in {"idle", "rejected", "done"} \cup ActivePcs

(***************************************************************************)
(* Specification of planning alone: buildFileStateMap and generateSyncPlan *)
(* over one path in every combination of vault file, object and journal    *)
(* entry; nothing is executed                                              *)
(***************************************************************************)
PlanMtimes == {1, 2}

PlanLocals ==
    {EmptyMap} \cup {PathA :> File(ct, m) : ct \in Contents, m \in PlanMtimes}

PlanRemotes ==
    {EmptyMap} \cup {localPathToS3Key(PathA) :> Object(ct, m) :
                        ct \in Contents, m \in PlanMtimes}

\* the entries the journal's writers leave behind
PlanJournals ==
    {EmptyMap}
    \cup {markSynced(EmptyMap, PathA, hashContent(ct), hashContent(ct), 1, DateNow) :
             ct \in Contents}
    \cup {markPending(EmptyMap, PathA, hashContent(ct), 1) : ct \in Contents}
    \cup {markConflict(EmptyMap, PathA, hashContent(ct), hashContent(cu)) :
             ct \in Contents, cu \in Contents}

PlanInputs ==
    /\ local \in PlanLocals
    /\ remote \in PlanRemotes
    /\ journal \in PlanJournals

InitPlan ==
    /\ PlanInputs
    /\ isSyncing = FALSE
    /\ runs = [c \in CallIds |-> IdleFrame]
    /\ pendingChanges = EmptyMap
    /\ debounceFile = NoFile
    /\ trackerTasks = {}
    /\ isTracking = FALSE
    /\ edits = 0
    /\ faults = 0
    /\ stable = FALSE
    /\ planOut = <<>>
    /\ input = <<>>
    /\ output = <<>>
    /\ sched = <<>>
    /\ orphanTimers = <<>>
    /\ db = TRUE
    /\ activeConflicts = NoConflicts

\* buildFileStateMap followed by generateSyncPlan
PlanPaths ==
    /\ planOut = <<>>
    /\ LET m == buildJournal(buildRemote(buildLocal(local), remote), journal)
       IN planOut' = <<[map |-> m, plan |-> generateSyncPlan(m.order, m.states)]>>
    /\ UNCHANGED <<local, remote, journal, isSyncing, runs, pendingChanges,
                   debounceFile, trackerTasks, isTracking, edits, faults, stable,
                   input, output, sched, orphanTimers, handlerVars>>

PlanNewInput ==
    /\ planOut # <<>>
    /\ planOut' = <<>>
    /\ local' \in PlanLocals
    /\ remote' \in PlanRemotes
    /\ journal' \in PlanJournals
    /\ UNCHANGED <<isSyncing, runs, pendingChanges, debounceFile, trackerTasks,
                   isTracking, edits, faults, stable,
                   input, output, sched, orphanTimers, handlerVars>>

NextPlan == PlanPaths \/ PlanNewInput

SpecPlan == InitPlan /\ [][NextPlan]_vars

(***************************************************************************)
(* Properties                                                              *)
(***************************************************************************)
Last(s) == s[Len(s)]

\* the content a digest was taken of (SHA-256 of the vault file, ETag of the object)
ContentOf(h) == IF Len(h) = 2 THEN h[2] ELSE "none"

HasItem(plan, path, action) ==
    \E i \in 1..Len(plan) : plan[i].path = path /\ plan[i].action = action

\* a call has taken its plan from generateSyncPlan
Planned(c) == runs[c].pc \in {"exec", "done"} /\ runs[c].idx >= 1

\* the step in which call c enumerates the journal and generates its plan
PlanStep(c) ==
    /\ runs[c].pc = "enumJournal"
    /\ runs'[c].pc \in {"exec", "done"}
    /\ runs'[c].result.errors = <<>>

\* the step in which call c executes one plan item
ItemStep(c) ==
    /\ runs[c].pc = "exec"
    /\ Len(runs'[c].log) = Len(runs[c].log) + 1

LocalArtifactOfA == <<"d", "/", "L", "O", "C", "A", "L", "_", "a">>
RemoteArtifactOfA == <<"d", "/", "R", "E", "M", "O", "T", "E", "_", "a">>
KeyOfA == <<"v", "/", "d", "/", "a">>

\* C1: at most one sync run is active at any time; a call made while a run
\* is active is rejected, enumerates nothing and executes nothing, and the
\* active run goes on
C1_SingleFlight ==
    /\ Cardinality({c \in CallIds : runs[c].pc \in ActivePcs}) <= 1
    /\ isSyncing <=> (\E c \in CallIds : runs[c].pc \in ActivePcs)
    /\ \A c \in CallIds :
          runs[c].pc = "rejected" =>
              /\ isSyncing
              /\ runs[c].map.order = <<>>
              /\ runs[c].plan = <<>>
              /\ runs[c].log = <<>>

C1_Witness ==
    \E c, d \in CallIds : runs[c].pc = "exec" /\ runs[d].pc = "rejected"

\* C2: a run that starts after a run without errors, with no change to the
\* vault or the store in between or meanwhile, and that has no failure of its
\* own, uploads nothing, downloads nothing and deletes nothing
C2_SecondRunIdle ==
    \A c \in CallIds :
        (runs[c].pc = "done" /\ runs[c].quietBefore /\ ~runs[c].dirty
         /\ runs[c].result.errors = <<>>) =>
            /\ runs[c].result.filesUploaded = 0
            /\ runs[c].result.filesDownloaded = 0
            /\ runs[c].result.filesDeleted = 0

\* a path on both sides with different content and no journal entry
FirstSyncBothSides(st) ==
    /\ st.localExists /\ st.remoteExists
    /\ st.journalLocalHash = Undefined
    /\ ContentOf(st.localHash) # ContentOf(st.remoteHash)

\* C3: a path present on both sides with different content and no journal
\* entry is planned as a conflict, never as an upload or download chosen by
\* modification time
C3_FirstSyncIsConflict ==
    \A c \in CallIds :
        Planned(c) =>
            \A p \in DOMAIN runs[c].map.states :
                FirstSyncBothSides(runs[c].map.states[p]) =>
                    HasItem(runs[c].plan, p, "conflict")

\* Scenario C: baseline H0 on both sides, local now H1, remote now H2
ScenarioC(st) ==
    /\ st.localExists /\ st.remoteExists
    /\ Truthy(st.journalLocalHash)
    /\ st.journalLocalHash = st.journalRemoteHash
    /\ st.localHash # st.journalLocalHash
    /\ ContentOf(st.remoteHash) # ContentOf(st.journalRemoteHash)
    /\ ContentOf(st.localHash) # ContentOf(st.remoteHash)

\* C4: in Scenario C the path is planned as a conflict, and when the conflict
\* action completes on the file the vault holds LOCAL_<name> with the local
\* content and REMOTE_<name> with the remote content, and the journal entry
\* of the path has status conflict
C4_ScenarioCConflict ==
    [][\A c \in CallIds :
          /\ (PlanStep(c) /\ PathA \in DOMAIN runs'[c].map.states
              /\ ScenarioC(runs'[c].map.states[PathA]))
                => HasItem(runs'[c].plan, PathA, "conflict")
          /\ (ItemStep(c)
              /\ Last(runs'[c].log) = [path |-> PathA, action |-> "conflict", ok |-> TRUE]
              /\ ScenarioC(runs[c].map.states[PathA])
              /\ PathA \in DOMAIN local /\ KeyOfA \in DOMAIN remote)
                => /\ LocalArtifactOfA \in DOMAIN local'
                   /\ local'[LocalArtifactOfA].content = local[PathA].content
                   /\ RemoteArtifactOfA \in DOMAIN local'
                   /\ local'[RemoteArtifactOfA].content = remote[KeyOfA].content
                   /\ getEntry(journal', PathA).status = "conflict"]_vars

C4_Witness ==
    \E c \in CallIds :
        /\ runs[c].log # <<>>
        /\ Last(runs[c].log) = [path |-> PathA, action |-> "conflict", ok |-> TRUE]
        /\ ScenarioC(runs[c].map.states[PathA])
        /\ LocalArtifactOfA \in DOMAIN local
        /\ local[LocalArtifactOfA].content = "c1"
        /\ RemoteArtifactOfA \in DOMAIN local
        /\ local[RemoteArtifactOfA].content = "c2"
        /\ getEntry(journal, PathA).status = "conflict"

\* Scenario A: the file exists only in the vault and has no journal entry
ScenarioA(st) ==
    /\ st.localExists /\ ~st.remoteExists
    /\ st.journalLocalHash = Undefined

\* Scenario B: baseline H0 on both sides, local now H1, remote still H0
ScenarioB(st) ==
    /\ st.localExists /\ st.remoteExists
    /\ Truthy(st.journalLocalHash)
    /\ st.journalLocalHash = st.journalRemoteHash
    /\ st.localHash # st.journalLocalHash
    /\ ContentOf(st.remoteHash) = ContentOf(st.journalRemoteHash)

\* C5: in Scenario A and in Scenario B the path is planned as an upload, and
\* when the upload completes the object holds the local content and the
\* journal entry is synced with localHash = remoteHash = the local digest
C5_UploadScenarios ==
    [][\A c \in CallIds :
          /\ (PlanStep(c) /\ PathA \in DOMAIN runs'[c].map.states
              /\ (\/ ScenarioA(runs'[c].map.states[PathA])
                  \/ ScenarioB(runs'[c].map.states[PathA])))
                => HasItem(runs'[c].plan, PathA, "upload")
          /\ (ItemStep(c)
              /\ Last(runs'[c].log) = [path |-> PathA, action |-> "upload", ok |-> TRUE])
                => /\ KeyOfA \in DOMAIN remote'
                   /\ remote'[KeyOfA].content = local[PathA].content
                   /\ getEntry(journal', PathA).status = "synced"
                   /\ getEntry(journal', PathA).localHash
                        = hashContent(local[PathA].content)
                   /\ getEntry(journal', PathA).remoteHash
                        = hashContent(local[PathA].content)]_vars

\* the error entry of a failed action
ItemError(e) == [path |-> e.path, action |-> e.action, recoverable |-> TRUE]

RECURSIVE ErrorsOf(_)
ErrorsOf(log) ==
    IF log = <<>> THEN <<>>
    ELSE IF Head(log).ok THEN ErrorsOf(Tail(log))
    ELSE <<ItemError(Head(log))>> \o ErrorsOf(Tail(log))

\* C6: a planned action that fails is recorded as a recoverable error with
\* its path and action, and the run goes on: the actions executed are the
\* plan's items in order, every one of them by the time the run returns
C6_FailureIsolation ==
    \A c \in CallIds :
        Planned(c) =>
            /\ Len(runs[c].log) = runs[c].idx - 1
            /\ \A i \in 1..Len(runs[c].log) :
                  /\ runs[c].log[i].path = runs[c].plan[i].path
                  /\ runs[c].log[i].action = runs[c].plan[i].action
            /\ runs[c].result.errors = ErrorsOf(runs[c].log)
            /\ runs[c].pc = "done" =>
                  /\ Len(runs[c].log) = Len(runs[c].plan)
                  /\ runs[c].result.success = (ErrorsOf(runs[c].log) = <<>>)

\* a failed item followed by an item that was still executed
C6_Witness ==
    \E c \in CallIds :
        /\ runs[c].pc = "done"
        /\ Len(runs[c].log) >= 2
        /\ ~runs[c].log[1].ok
        /\ Last(runs[c].log).ok

\* a call that returned without having planned, with an error
Aborted(c) ==
    runs[c].pc = "done" /\ runs[c].idx = 0 /\ runs[c].result.errors # <<>>

\* C7: when listing the vault, listing the store or reading the journal
\* fails, the run returns success = false with exactly one error, which is
\* not recoverable, and has executed no action
C7_EnumerationAbort ==
    \A c \in CallIds :
        Aborted(c) =>
            /\ ~runs[c].result.success
            /\ Len(runs[c].result.errors) = 1
            /\ ~runs[c].result.errors[1].recoverable
            /\ runs[c].plan = <<>>
            /\ runs[c].log = <<>>
            /\ runs[c].result.filesUploaded = 0
            /\ runs[c].result.filesDownloaded = 0
            /\ runs[c].result.filesDeleted = 0
            /\ runs[c].result.conflicts = <<>>
            /\ ~isSyncing

\* the abort came after the vault had been listed
C7_Witness ==
    \E c \in CallIds : Aborted(c) /\ runs[c].map.order # <<>>

\* C8: when the action on a path fails at any step, the journal entry of
\* that path is what it was before the action
C8_JournalOnlyOnSuccess ==
    [][\A c \in CallIds :
          (ItemStep(c) /\ ~Last(runs'[c].log).ok) =>
              getEntry(journal', Last(runs'[c].log).path)
                  = getEntry(journal, Last(runs'[c].log).path)]_vars

\* C9: while the journal entry of a path has status conflict, a plan holds
\* no action for the path's LOCAL_ or REMOTE_ artifact
C9_ArtifactsExcluded ==
    \A c \in CallIds :
        (Planned(c) /\ runs[c].idx = 1) =>
            \A i \in 1..Len(runs[c].plan) :
                ~ /\ isConflictFile(runs[c].plan[i].path)
                  /\ getEntry(journal, getOriginalPath(runs[c].plan[i].path)).status
                        = "conflict"

\* the classifier's verdict on a path of the state map
Classified(st, jrn) ==
    diffToAction(computeThreeWayDiff(
        [exists |-> st.localExists, hash |-> st.localHash],
        [exists |-> st.remoteExists, hash |-> st.remoteHash],
        jrn))

\* C10: the action planned for a path is diffToAction of the classifier's
\* verdict on its local state, remote state and journal entry, and the plan
\* holds exactly the paths whose action is not skip
C10_PlanIsClassifier ==
    planOut # <<>> =>
        \A p \in DOMAIN planOut[1].map.states :
            LET expected == Classified(planOut[1].map.states[p], getEntry(journal, p))
            IN /\ expected # "skip" => HasItem(planOut[1].plan, p, expected)
               /\ expected = "skip" =>
                     ~\E i \in 1..Len(planOut[1].plan) : planOut[1].plan[i].path = p

(***************************************************************************)
(* Function specifications: one function of the program applied to every   *)
(* argument of a bounded set; the plugin itself stays as constructed        *)
(***************************************************************************)
engineVars == <<local, remote, journal, isSyncing, runs, pendingChanges,
                debounceFile, trackerTasks, isTracking, edits, faults, stable,
                planOut, sched, orphanTimers, handlerVars>>

IdleEngine ==
    /\ local = EmptyMap
    /\ remote = EmptyMap
    /\ journal = EmptyMap
    /\ isSyncing = FALSE
    /\ runs = [c \in CallIds |-> IdleFrame]
    /\ pendingChanges = EmptyMap
    /\ debounceFile = NoFile
    /\ trackerTasks = {}
    /\ isTracking = FALSE
    /\ edits = 0
    /\ faults = 0
    /\ stable = FALSE
    /\ planOut = <<>>
    /\ sched = <<>>
    /\ orphanTimers = <<>>
    /\ db = TRUE
    /\ activeConflicts = NoConflicts

\* the caller drops the result and picks the next arguments
NewInput(Inputs) ==
    /\ output # <<>>
    /\ input' \in Inputs
    /\ output' = <<>>
    /\ UNCHANGED engineVars

(***************************************************************************)
(* computeThreeWayDiff over every FileSnapshot pair and baseline           *)
(***************************************************************************)
DiffHashes == {Undefined, EmptyStr, hashContent("c0"), hashContent("c1")}

FileSnapshots == [exists : BOOLEAN, hash : DiffHashes]

DiffBaselines ==
    {NoEntry} \cup
    {markSynced(EmptyMap, PathA, lh, rh, 1, DateNow)[PathA] :
        lh \in DiffHashes \ {Undefined}, rh \in DiffHashes \ {Undefined}}

DiffInputs == [local : FileSnapshots, remote : FileSnapshots, journal : DiffBaselines]

InitDiff ==
    /\ IdleEngine
    /\ input \in DiffInputs
    /\ output = <<>>

\* one call of the classifier; a second call on the same arguments follows
Classify ==
    /\ Len(output) < 2
    /\ output' = Append(output,
                        computeThreeWayDiff(input.local, input.remote, input.journal))
    /\ UNCHANGED <<input, engineVars>>

NextDiff == Classify \/ NewInput(DiffInputs)

SpecDiff == InitDiff /\ [][NextDiff]_vars

DiffResults ==
    {"unchanged", "local-only", "remote-only", "both-changed",
     "new-local", "new-remote", "deleted-local", "deleted-remote"}

\* the classifications the decision table allows for the arguments' row
TableRow(loc, rem, jrn) ==
    IF loc.exists /\ rem.exists
    THEN IF jrn = NoEntry THEN {"unchanged", "both-changed"}
         ELSE {"unchanged", "both-changed", "local-only", "remote-only"}
    ELSE IF loc.exists THEN IF jrn = NoEntry THEN {"new-local"} ELSE {"deleted-remote"}
    ELSE IF rem.exists THEN IF jrn = NoEntry THEN {"new-remote"} ELSE {"deleted-local"}
    ELSE {"unchanged"}

\* C11: for every local snapshot, remote snapshot and baseline (missing
\* hashes and an absent baseline included) the classifier returns one of the
\* eight classifications, the one its row of the decision table allows, and
\* returns the same one when called again
C11_ClassifierTotal ==
    \A i \in 1..Len(output) :
        /\ output[i] \in DiffResults
        /\ output[i] \in TableRow(input.local, input.remote, input.journal)
        /\ output[i] = output[1]

\* called twice on a remote-only file with no hash and no baseline
C11_Witness ==
    /\ Len(output) = 2
    /\ ~input.local.exists /\ input.remote.exists
    /\ input.remote.hash = Undefined
    /\ input.journal = NoEntry


(***************************************************************************)
(* diffToAction over every classification the classifier returns: output   *)
(* maps each classification met so far to the action planned for it        *)
(***************************************************************************)
ClassifierRange ==
    {computeThreeWayDiff(i.local, i.remote, i.journal) : i \in DiffInputs}

InitAction ==
    /\ IdleEngine
    /\ input \in ClassifierRange
    /\ output = EmptyMap

Decide ==
    /\ input \notin DOMAIN output
    /\ output' = output @@ (input :> diffToAction(input))
    /\ UNCHANGED <<input, engineVars>>

Reclassify ==
    /\ input \in DOMAIN output
    /\ input' \in ClassifierRange
    /\ UNCHANGED <<output, engineVars>>

NextAction == Decide \/ Reclassify

SpecAction == InitAction /\ [][NextAction]_vars

ActionTable ==
    {<<"unchanged", "skip">>,
     <<"local-only", "upload">>, <<"new-local", "upload">>,
     <<"remote-only", "download">>, <<"new-remote", "download">>,
     <<"deleted-local", "delete-remote">>, <<"deleted-remote", "delete-local">>,
     <<"both-changed", "conflict">>}

\* C27: diffToAction gives every classification an action, the one of the
\* table: unchanged is skipped, a local change or new local file uploaded,
\* a remote change or new remote file downloaded, a local deletion deletes
\* the remote copy, a remote deletion the local copy, and a change on both
\* sides is a conflict
C27_ActionTable ==
    \A diff \in DOMAIN output :
        /\ diff \in DiffResults
        /\ <<diff, output[diff]>> \in ActionTable

\* every one of the eight classifications has been given its action
C27_Witness ==
    /\ DOMAIN output = DiffResults
    /\ output["deleted-local"] = "delete-remote"

(***************************************************************************)
(* Specification of the ChangeTracker alone: vault events on included and  *)
(* excluded paths, the debounce timer and the handlers' continuations.     *)
(* Here the timer callback is two steps, split at its await, and           *)
(* debounceFile is the file of the pending timer debounceTimeoutId names.  *)
(* input is the sequence of vault events so far; output is the set of      *)
(* paths with a modify event whose debounce window is still open.          *)
(***************************************************************************)
MaxEvents == 3

PathB == <<"b">>
ExcludedPathY == <<"t", "/", "y">>
TrackerPaths == {PathA, PathB, ExcludedPath, ExcludedPathY}
TrackerContents == {"c1", "c2"}

VaultEvent(type, path, oldPath) == [type |-> type, path |-> path, oldPath |-> oldPath]

\* the timer callback, suspended in await updateJournalForFile(file)
DebounceTask(path) == [kind |-> "debounceCallback", path |-> path, existing |-> NoEntry]

InitTracker ==
    /\ local \in {EmptyMap,
                  PathA :> File("c1", 2),
                  (PathA :> File("c1", 2)) @@ (ExcludedPath :> File("c1", 2))}
    /\ remote = EmptyMap
    /\ journal = IF PathA \in DOMAIN local
                 THEN markSynced(EmptyMap, PathA, hashContent("c1"), hashContent("c1"),
                                 2, DateNow)
                 ELSE EmptyMap
    /\ isSyncing = FALSE
    /\ runs = [c \in CallIds |-> IdleFrame]
    /\ pendingChanges = EmptyMap
    /\ debounceFile = NoFile
    /\ trackerTasks = {}
    /\ isTracking = TRUE
    /\ edits = 0
    /\ faults = 0
    /\ stable = FALSE
    /\ planOut = <<>>
    /\ sched = <<>>
    /\ orphanTimers = <<>>
    /\ db = TRUE
    /\ activeConflicts = NoConflicts
    /\ input = <<>>
    /\ output = {}

TrackerFrame ==
    UNCHANGED <<isSyncing, runs, edits, faults, stable, planOut, sched, handlerVars>>

\* the vault delivers one more event
Delivered(event) ==
    /\ Len(input) < MaxEvents
    /\ input' = Append(input, event)
    /\ UNCHANGED orphanTimers
    /\ TrackerFrame

FileCreated(path, content) ==
    /\ path \notin DOMAIN local
    /\ Delivered(VaultEvent("create", path, Undefined))
    /\ SetWorld(vaultCreate(World, path, content))
    /\ UNCHANGED output

FileModified(path, content) ==
    /\ path \in DOMAIN local
    /\ local[path].content # content
    /\ Delivered(VaultEvent("modify", path, Undefined))
    /\ SetWorld(vaultModify(World, path, content))
    /\ output' = IF shouldExclude(path) THEN output ELSE output \cup {path}

FileDeleted(path) ==
    /\ path \in DOMAIN local
    /\ Delivered(VaultEvent("delete", path, Undefined))
    /\ SetWorld(vaultTrash(World, path))
    /\ UNCHANGED output

FileRenamed(oldPath, path) ==
    /\ oldPath \in DOMAIN local
    /\ path \notin DOMAIN local
    /\ Delivered(VaultEvent("rename", path, oldPath))
    /\ SetWorld(vaultRename(World, oldPath, path))
    /\ UNCHANGED output

\* the timer debounceTimeoutId names expires: its callback starts
TimerFires ==
    /\ debounceFile # NoFile
    /\ debounceFile' = NoFile
    /\ trackerTasks' = trackerTasks \cup {DebounceTask(debounceFile)}
    /\ output' = output \ {debounceFile}
    /\ UNCHANGED <<local, remote, journal, pendingChanges, isTracking, input, orphanTimers>>
    /\ TrackerFrame

\* a timer debounceTimeoutId no longer names expires
OrphanFires(i) ==
    /\ i \in DOMAIN orphanTimers
    /\ orphanTimers' = [j \in 1..(Len(orphanTimers) - 1) |->
                           IF j < i THEN orphanTimers[j] ELSE orphanTimers[j + 1]]
    /\ trackerTasks' = trackerTasks \cup {DebounceTask(orphanTimers[i])}
    /\ output' = output \ {orphanTimers[i]}
    /\ UNCHANGED <<local, remote, journal, pendingChanges, isTracking, input, debounceFile>>
    /\ TrackerFrame

\* a continuation resumes; the timer callback ends with debounceTimeoutId = null,
\* whichever timer the field names by then
Resumes(t) ==
    /\ t \in trackerTasks
    /\ LET w == [World EXCEPT !.trackerTasks = @ \ {t}]
       IN SetWorld(CASE t.kind = "markDeleted" ->
                          [w EXCEPT !.journal = markDeletedPut(@, t.existing)]
                     [] t.kind = "updateJournalForFile" -> updateJournalForFile(w, t.path)
                     [] t.kind = "debounceCallback" ->
                          [updateJournalForFile(w, t.path) EXCEPT !.debounceFile = NoFile])
    /\ orphanTimers' = IF t.kind = "debounceCallback" /\ debounceFile # NoFile
                       THEN Append(orphanTimers, debounceFile)
                       ELSE orphanTimers
    /\ UNCHANGED <<input, output>>
    /\ TrackerFrame

NextTracker ==
    \/ \E p \in TrackerPaths, ct \in TrackerContents : FileCreated(p, ct)
    \/ \E p \in TrackerPaths, ct \in TrackerContents : FileModified(p, ct)
    \/ \E p \in TrackerPaths : FileDeleted(p)
    \/ \E p, q \in TrackerPaths : FileRenamed(p, q)
    \/ TimerFires
    \/ \E i \in 1..MaxEvents : OrphanFires(i)
    \/ \E t \in trackerTasks : Resumes(t)

SpecTracker == InitTracker /\ [][NextTracker]_vars

\* every vault event so far is a modify event on path p
OnlyModifiesOf(p) ==
    \A i \in 1..Len(input) : input[i].type = "modify" /\ input[i].path = p

\* pending debounce timers that hold the file at path p
TimersFor(p) ==
    (IF debounceFile = p THEN 1 ELSE 0)
    + Cardinality({i \in DOMAIN orphanTimers : orphanTimers[i] = p})

\* C12: modify events on one path that arrive within the debounce window
\* leave exactly one timer pending, hence one markPending call, which
\* carries the hash of the latest content, and one pending-change entry
C12_DebounceCoalescing ==
    (OnlyModifiesOf(PathA) /\ input # <<>>) =>
        /\ TimersFor(PathA) = IF PathA \in output THEN 1 ELSE 0
        /\ PathA \in DOMAIN pendingChanges
        /\ (PathA \notin output /\ trackerTasks = {}) =>
              /\ getEntry(journal, PathA).status = "pending"
              /\ getEntry(journal, PathA).localHash = hashContent(local[PathA].content)

\* the vault has just delivered an event
EventStep == Len(input') = Len(input) + 1

Included(path) == ~shouldExclude(path)

\* C13: after a delete event on an included path the ledger holds a delete
\* entry for it, and after a rename between included paths a rename entry
\* for the new path, whatever create or modify entry was pending before
C13_DeleteRenameRecorded ==
    [][(EventStep /\ Included(Last(input').path))
          => LET e == Last(input')
             IN /\ e.type = "delete" =>
                      /\ e.path \in DOMAIN pendingChanges'
                      /\ pendingChanges'[e.path].type = "delete"
                /\ (e.type = "rename" /\ Included(e.oldPath)) =>
                      /\ e.path \in DOMAIN pendingChanges'
                      /\ pendingChanges'[e.path].type = "rename"]_vars

\* the tracker's own state in a world
TrackerState(w) ==
    <<w.pendingChanges, w.journal, w.trackerTasks, w.debounceFile>>

\* the world once the vault has moved the file, before any handler runs
Moved(oldPath, path) ==
    [World EXCEPT !.local = Put(Del(@, oldPath), path, local[oldPath])]

\* C19: a rename event (a) between included paths records one rename entry
\* for the new path, deletes the old journal entry and starts the write of
\* the new one; (b) from an included to an excluded path is handled as
\* the delete of the old path; (c) from an excluded to an included path as
\* the create of the new path; (d) between excluded paths changes neither
\* ledger nor journal
C19_RenameCases ==
    [][(EventStep /\ Last(input').type = "rename")
          => LET e == Last(input')
                 w1 == Moved(e.oldPath, e.path)
                 after == [World EXCEPT !.pendingChanges = pendingChanges',
                                        !.journal = journal',
                                        !.trackerTasks = trackerTasks',
                                        !.debounceFile = debounceFile']
             IN /\ (Included(e.oldPath) /\ Included(e.path)) =>
                      /\ e.path \in DOMAIN pendingChanges'
                      /\ pendingChanges'[e.path] = PendingChange(e.path, "rename", e.oldPath)
                      /\ getEntry(journal', e.oldPath) = NoEntry
                      /\ UpdateTask(e.path) \in trackerTasks'
                /\ (Included(e.oldPath) /\ ~Included(e.path)) =>
                      TrackerState(after) = TrackerState(onFileDelete(w1, e.oldPath))
                /\ (~Included(e.oldPath) /\ Included(e.path)) =>
                      TrackerState(after) = TrackerState(onFileCreate(w1, e.path))
                /\ (~Included(e.oldPath) /\ ~Included(e.path)) =>
                      /\ pendingChanges' = pendingChanges
                      /\ journal' = journal]_vars


\* the paths of the vault that the exclude list t/* matches
ExcludedPaths == {ExcludedPath, ExcludedPathY}

\* C29: a create, modify or delete event on an excluded path, and a rename
\* from an excluded path to an excluded path, leave the ledger and the
\* journal as they were, start no journal write and arm no debounce timer
C29_ExcludedIgnored ==
    [][(/\ EventStep
        /\ Last(input').path \in ExcludedPaths
        /\ Last(input').type = "rename" => Last(input').oldPath \in ExcludedPaths)
          => /\ pendingChanges' = pendingChanges
             /\ journal' = journal
             /\ trackerTasks' = trackerTasks
             /\ debounceFile' = debounceFile
             /\ orphanTimers' = orphanTimers]_vars

\* t/x was renamed to t/y and t/y was then modified: nothing was recorded
C29_Witness ==
    /\ input = <<VaultEvent("rename", ExcludedPathY, ExcludedPath),
                 VaultEvent("modify", ExcludedPathY, Undefined)>>
    /\ ExcludedPathY \in DOMAIN local
    /\ pendingChanges = EmptyMap
    /\ debounceFile = NoFile
    /\ trackerTasks = {}


\* no timer is pending and no continuation of the tracker is suspended
TrackerQuiet == debounceFile = NoFile /\ orphanTimers = <<>> /\ trackerTasks = {}

\* event i is the last event that concerns its path
LastOnPath(i) ==
    \A k \in (i + 1)..Len(input) :
        input[k].path # input[i].path /\ input[k].oldPath # input[i].path

\* C37: once the events have stopped and the timers have run, markPending
\* has been performed for every included path that was modified, also for
\* a path whose modify event was followed within the debounce window by a
\* modify event on another path
C37_BothPathsUpdated ==
    TrackerQuiet =>
        \A i \in 1..Len(input) :
            (/\ input[i].type = "modify"
             /\ Included(input[i].path)
             /\ LastOnPath(i)) =>
                /\ getEntry(journal, input[i].path).status = "pending"
                /\ getEntry(journal, input[i].path).localHash
                      = hashContent(local[input[i].path].content)

Settings ==
    [syncEnabled : BOOLEAN, autoSyncEnabled : BOOLEAN, syncIntervalMinutes : {5, 15}]

DefaultSettings ==
    [syncEnabled |-> TRUE, autoSyncEnabled |-> TRUE, syncIntervalMinutes |-> 5]

NullId == 0

\* the handle window.setInterval returns: one no live interval has
setInterval(timers) == CHOOSE n \in 1..(Cardinality(timers) + 1) :
                           \A t \in timers : t.id # n

Callback(name, success, conflictCount) ==
    [name |-> name, success |-> success, conflictCount |-> conflictCount]

\* the scheduler after its constructor; calls, trigger, results and
\* whilePaused record each activation of triggerSync, pauseOpen is TRUE from
\* a pause() call to the next resume() call
NewScheduler ==
    [settings |-> DefaultSettings, intervalId |-> NullId,
     isEnabled |-> FALSE, isPaused |-> FALSE, timers |-> {},
     calls |-> [c \in CallIds |-> <<>>],
     trigger |-> [c \in CallIds |-> "none"],
     results |-> [c \in CallIds |-> EmptyResult],
     whilePaused |-> [c \in CallIds |-> FALSE],
     pauseOpen |-> FALSE]

schedStart(sc) ==
    IF sc.isEnabled THEN sc
    ELSE IF ~sc.settings.syncEnabled \/ ~sc.settings.autoSyncEnabled THEN sc
    ELSE LET id == setInterval(sc.timers)
         IN [sc EXCEPT !.isEnabled = TRUE, !.isPaused = FALSE, !.intervalId = id,
                       !.timers = @ \cup {[id |-> id,
                                           minutes |-> sc.settings.syncIntervalMinutes]}]

schedStop(sc) ==
    IF ~sc.isEnabled THEN sc
    ELSE [sc EXCEPT !.timers = {t \in @ : t.id # sc.intervalId},
                    !.intervalId = NullId, !.isEnabled = FALSE, !.isPaused = FALSE]

schedUpdateSettings(sc, settings) ==
    LET set == [sc EXCEPT !.settings = settings]
    IN IF set.isEnabled /\ set.settings.autoSyncEnabled
       THEN schedStart(schedStop(set))
       ELSE set

schedPause(sc) == [sc EXCEPT !.isPaused = TRUE]

schedResume(sc) == [sc EXCEPT !.isPaused = FALSE]

InitScheduler ==
    \E sa \in {"localOnly", "bothNoJournal", "synced"} :
        /\ local = InitLocal(PathA, sa)
        /\ remote = InitRemote(PathA, sa)
        /\ journal = InitJournal(PathA, sa)
        /\ isSyncing = FALSE
        /\ runs = [c \in CallIds |-> IdleFrame]
        /\ pendingChanges = EmptyMap
        /\ debounceFile = NoFile
        /\ trackerTasks = {}
        /\ isTracking = FALSE
        /\ edits = 0
        /\ faults = 0
        /\ stable = FALSE
        /\ planOut = <<>>
        /\ input = <<>>
        /\ output = <<>>
        /\ sched = NewScheduler
        /\ orphanTimers = <<>>
        /\ db = TRUE
        /\ activeConflicts = NoConflicts

EngineFrame ==
    UNCHANGED <<local, remote, journal, isSyncing, runs, pendingChanges, debounceFile,
                trackerTasks, isTracking, edits, faults, stable, planOut, input,
                output, orphanTimers, handlerVars>>

\* a scheduler method that returns without awaiting
SchedOp(next) ==
    /\ NoneReturning
    /\ sched' = next
    /\ EngineFrame

Start == SchedOp(schedStart(sched))

Stop == SchedOp(schedStop(sched))

UpdateSettings(settings) == SchedOp(schedUpdateSettings(sched, settings))

Pause == SchedOp([schedPause(sched) EXCEPT !.pauseOpen = TRUE])

Resume == SchedOp([schedResume(sched) EXCEPT !.pauseOpen = FALSE])

\* triggerSync from its head to its await of sync()
triggerSync(c, trigger) ==
    IF isSyncing
    THEN /\ NoneReturning
         /\ runs[c].pc = "idle"
         /\ UNCHANGED sched
         /\ EngineFrame
    ELSE /\ SyncHead(c)
         /\ sched' = [sched EXCEPT
                        !.calls[c] = <<Callback("onSyncStart", FALSE, 0)>>,
                        !.trigger[c] = trigger,
                        !.results[c] = EmptyResult,
                        !.whilePaused[c] = sched.pauseOpen]
         /\ UNCHANGED <<planOut, input, output, orphanTimers, handlerVars>>

\* the ribbon icon and the sync command, and the run at startup
UserTrigger(c, trigger) == triggerSync(c, trigger)

\* the callback start() hands to window.setInterval
Tick(t, c) ==
    /\ t \in sched.timers
    /\ IF ~sched.isPaused
       THEN triggerSync(c, "scheduled")
       ELSE /\ NoneReturning
            /\ UNCHANGED sched
            /\ EngineFrame

\* triggerSync after its await of sync()
TriggerResumes(c) ==
    /\ runs[c].pc \in {"done", "rejected"}
    /\ sched' = [sched EXCEPT
                   !.calls[c] = Append(@,
                       IF runs[c].pc = "done"
                       THEN Callback("onSyncComplete", runs[c].result.success,
                                     Len(runs[c].result.conflicts))
                       ELSE Callback("onSyncError", FALSE, 0)),
                   !.results[c] = runs[c].result]
    /\ runs' = [runs EXCEPT ![c] = IdleFrame]
    /\ UNCHANGED <<local, remote, journal, isSyncing, pendingChanges, debounceFile,
                   trackerTasks, isTracking, edits, faults, stable, planOut, input,
                   output, orphanTimers, handlerVars>>

NextScheduler ==
    \/ Start
    \/ Stop
    \/ \E st \in Settings : UpdateSettings(st)
    \/ Pause
    \/ Resume
    \/ \E c \in CallIds, t \in {"manual", "startup"} : UserTrigger(c, t)
    \/ \E t \in sched.timers, c \in CallIds : Tick(t, c)
    \/ \E c \in CallIds : TriggerResumes(c)
    \/ \E c \in CallIds : EnumLocal(c)
    \/ \E c \in CallIds : EnumRemote(c)
    \/ \E c \in CallIds : EnumJournal(c)
    \/ \E c \in CallIds : EnumFail(c)
    \/ \E c \in CallIds, f \in 0..5 : ExecItem(c, f)

SpecScheduler == InitScheduler /\ [][NextScheduler]_vars

\* a timer tick starts a run in activation c
TickStarts(c) ==
    /\ runs[c].pc = "idle"
    /\ runs'[c].pc = "enumLocal"
    /\ sched'.trigger[c] = "scheduled"

\* C15: pause() and resume() leave the timer running, and from a pause()
\* call to the next resume() call no timer tick starts a sync run, whatever
\* start, stop and updateSettings calls happen in between
C15_PausedNoTickSync ==
    [][/\ sched'.pauseOpen # sched.pauseOpen => sched'.timers = sched.timers
       /\ \A c \in CallIds : TickStarts(c) => ~sched.pauseOpen]_vars

\* the activation c of triggerSync has returned
Reported(c) == runs[c].pc = "idle" /\ sched.calls[c] # <<>>

\* C16: an activation of triggerSync that found no run in progress calls
\* onSyncStart once and then exactly one of onSyncComplete and onSyncError,
\* onSyncError when the run ended in an error; one that found a run in
\* progress calls neither sync() nor a callback
C16_TriggerProtocol ==
    /\ \A c \in CallIds :
          Reported(c) =>
              /\ Len(sched.calls[c]) = 2
              /\ sched.calls[c][1].name = "onSyncStart"
              /\ sched.calls[c][2].name \in {"onSyncComplete", "onSyncError"}
              /\ sched.results[c].errors # <<>> =>
                     sched.calls[c][2].name = "onSyncError"
    /\ \A c \in CallIds :
          runs[c].pc # "idle" => /\ Len(sched.calls[c]) = 1
                                 /\ sched.calls[c][1].name = "onSyncStart"
    /\ Cardinality({c \in CallIds : runs[c].pc # "idle"}) <= 1


\* C26: updateSettings on a started scheduler stops and restarts the timer:
\* afterwards exactly one timer is active and it fires at the new interval,
\* or none when the new settings disable auto-sync; no step leaves two
\* timers active
C26_UpdateRestartsTimer ==
    [][/\ Cardinality(sched'.timers) <= 1
       /\ \A settings \in Settings :
             UpdateSettings(settings) /\ sched.isEnabled =>
                /\ settings.syncEnabled /\ settings.autoSyncEnabled =>
                      sched'.timers =
                          {[id |-> sched'.intervalId,
                            minutes |-> settings.syncIntervalMinutes]}
                /\ ~settings.autoSyncEnabled => sched'.timers = {}]_vars

(***************************************************************************)
(* Object-store calls and the retry utility                                *)
(***************************************************************************)
\* what one request to the store ends in
SendOutcomes == {"ok", "network", "rateLimit", "denied"}

isNetworkError(outcome) == outcome = "network"

isRateLimitError(outcome) == outcome = "rateLimit"

DefaultBackoffMultiplier == 2

isRetryable(outcome) == isNetworkError(outcome) \/ isRateLimitError(outcome)

\* the option isRetryable is the set of errors it answers true for
createS3RetryOptions ==
    [maxAttempts |-> 3, initialDelayMs |-> 1000, maxDelayMs |-> 10000,
     backoffMultiplier |-> DefaultBackoffMultiplier,
     isRetryable |-> {e \in SendOutcomes \ {"ok"} : isRetryable(e)}]

Min(a, b) == IF a < b THEN a ELSE b

\* how a call ends: resolved or rejected with error, after attempts calls
\* of the operation
CallResult(ok, attempts, delays, error) ==
    [ok |-> ok, attempts |-> attempts, delays |-> delays, error |-> error]

NoError == "none"

\* withRetry from attempt on; outcomes[i] is what the i-th call of fn ends
\* in, delays are the waits before the jitter is added
RECURSIVE retryLoop(_, _, _, _, _, _)
retryLoop(outcomes, opts, attempt, delayMs, delays, lastError) ==
    IF attempt > opts.maxAttempts
    THEN CallResult(FALSE, attempt - 1, delays,
                    IF lastError # NoError THEN lastError
                    ELSE "Retry failed with unknown error")
    ELSE IF outcomes[attempt] = "ok" THEN CallResult(TRUE, attempt, delays, NoError)
    ELSE IF outcomes[attempt] \notin opts.isRetryable
    THEN CallResult(FALSE, attempt, delays, outcomes[attempt])
    ELSE IF attempt >= opts.maxAttempts
    THEN CallResult(FALSE, attempt, delays, outcomes[attempt])
    ELSE retryLoop(outcomes, opts, attempt + 1,
                   Min(delayMs * opts.backoffMultiplier, opts.maxDelayMs),
                   Append(delays, Min(delayMs, opts.maxDelayMs)),
                   outcomes[attempt])

\* a retry that takes every error for retryable
withRetryEveryError(outcomes, opts) ==
    retryLoop(outcomes, [opts EXCEPT !.isRetryable = SendOutcomes], 1,
              opts.initialDelayMs, <<>>, NoError)

withRetry(outcomes, opts) ==
    retryLoop(outcomes, opts, 1, opts.initialDelayMs, <<>>, NoError)

\* S3Provider.listObjects (one page), downloadFile, uploadFile, deleteFile:
\* each awaits client.send once and lets its error through
StoreOps == {"listObjects", "downloadFile", "uploadFile", "deleteFile"}

providerCall(op, outcomes) ==
    CallResult(outcomes[1] = "ok", 1, <<>>,
               IF outcomes[1] = "ok" THEN NoError ELSE outcomes[1])

StoreInputs ==
    [op : StoreOps,
     outcomes : [1..createS3RetryOptions.maxAttempts -> SendOutcomes]]

InitStore ==
    /\ IdleEngine
    /\ input \in StoreInputs
    /\ output = <<>>

\* the orchestrator awaits one call of the provider
StoreCall ==
    /\ output = <<>>
    /\ output' = <<providerCall(input.op, input.outcomes)>>
    /\ UNCHANGED <<input, engineVars>>

NextStore == StoreCall \/ NewInput(StoreInputs)

SpecStore == InitStore /\ [][NextStore]_vars

\* C17: a call of the object store whose requests fail with network or
\* rate-limit errors ends as withRetry under createS3RetryOptions ends it:
\* retried with growing delays up to maxAttempts, the caller seeing only the
\* final outcome
C17_TransientRetried ==
    output # <<>> =>
        output[1].ok = withRetry(input.outcomes, createS3RetryOptions).ok


(***************************************************************************)
(* withRetry under every choice of options                                 *)
(***************************************************************************)
MaxAttempts == 3

\* isRetryable: the default (every error), the store's, and none
RetryOptions ==
    [maxAttempts : 0..MaxAttempts, initialDelayMs : {1000}, maxDelayMs : {10000},
     backoffMultiplier : {DefaultBackoffMultiplier},
     isRetryable : {SendOutcomes \ {"ok"}, createS3RetryOptions.isRetryable, {}}]

RetryInputs == [outcomes : [1..MaxAttempts -> SendOutcomes], opts : RetryOptions]

InitRetry ==
    /\ IdleEngine
    /\ input \in RetryInputs
    /\ output = <<>>

\* one call of withRetry, run to its end
RetryCall ==
    /\ output = <<>>
    /\ output' = <<withRetry(input.outcomes, input.opts)>>
    /\ UNCHANGED <<input, engineVars>>

NextRetry == RetryCall \/ NewInput(RetryInputs)

SpecRetry == InitRetry /\ [][NextRetry]_vars

\* the calls among the first maxAttempts that end the retrying: a success
\* or an error that is not retryable
Ending(outcomes, opts) ==
    {i \in 1..opts.maxAttempts :
        outcomes[i] = "ok" \/ outcomes[i] \notin opts.isRetryable}

\* C28: withRetry calls the operation at most maxAttempts times; it returns
\* at the first success, throws the first error that is not retryable
\* without a further call, and otherwise throws the last error once
\* maxAttempts calls have failed
C28_RetryBound ==
    output # <<>> =>
        LET r == output[1]
            o == input.outcomes
            n == input.opts.maxAttempts
            ending == Ending(o, input.opts)
        IN /\ r.attempts <= n
           /\ ending # {} =>
                 LET first == CHOOSE i \in ending : \A k \in ending : i <= k
                 IN /\ r.attempts = first
                    /\ r.ok <=> o[first] = "ok"
                    /\ ~r.ok => r.error = o[first]
           /\ ending = {} =>
                 /\ ~r.ok
                 /\ r.attempts = n
                 /\ n >= 1 => r.error = o[n]

\* three calls failed with retryable errors and the last error was thrown
C28_Witness ==
    /\ output # <<>>
    /\ input.opts.maxAttempts = 3
    /\ input.opts.isRetryable = createS3RetryOptions.isRetryable
    /\ input.outcomes[1] = "network" /\ input.outcomes[2] = "network"
    /\ input.outcomes[3] = "rateLimit"
    /\ output[1] = CallResult(FALSE, 3, <<1000, 2000>>, "rateLimit")

(***************************************************************************)
(* ConflictHandler: conflict paths there and back                          *)
(***************************************************************************)
MaxDepth == 3

\* a path whose file name takes the LOCAL_ prefix where the directory starts
generateConflictPathsFlat(path) ==
    [localPath |-> LOCAL_PREFIX \o path, remotePath |-> REMOTE_PREFIX \o path]

generateConflictPaths(path) ==
    LET lastSlash == LastIndexOf(path, "/")
        dir == SubSeq(path, 1, lastSlash - 1)
        fileName == SubstringFrom(path, lastSlash)
        localName == LOCAL_PREFIX \o fileName
        remoteName == REMOTE_PREFIX \o fileName
    IN [localPath |-> IF dir # EmptyStr THEN dir \o <<"/">> \o localName ELSE localName,
        remotePath |-> IF dir # EmptyStr THEN dir \o <<"/">> \o remoteName
                       ELSE remoteName]

\* names of folders and files, some of them carrying a conflict prefix
SegmentNames ==
    {<<"a">>, <<"L">>, LOCAL_PREFIX, LOCAL_PREFIX \o <<"a">>, REMOTE_PREFIX \o <<"a">>,
     REMOTE_PREFIX \o LOCAL_PREFIX \o <<"a">>}

RECURSIVE JoinPath(_)
JoinPath(segments) ==
    IF Len(segments) = 1 THEN segments[1]
    ELSE segments[1] \o <<"/">> \o JoinPath(Tail(segments))

\* the vault's paths: names joined by single slashes, none at either end
VaultPaths ==
    UNION {{JoinPath(sg) : sg \in [1..d -> SegmentNames]} : d \in 1..MaxDepth}

InitConflict ==
    /\ IdleEngine
    /\ input \in VaultPaths
    /\ output = <<>>

\* the two artifact paths of a path, and the original path of each
RoundTrip ==
    /\ output = <<>>
    /\ LET paths == generateConflictPaths(input)
       IN output' = <<[paths |-> paths,
                       ofLocal |-> getOriginalPath(paths.localPath),
                       ofRemote |-> getOriginalPath(paths.remotePath)]>>
    /\ UNCHANGED <<input, engineVars>>

NextConflict == RoundTrip \/ NewInput(VaultPaths)

SpecConflict == InitConflict /\ [][NextConflict]_vars

\* C18: getOriginalPath gives back P from the LOCAL_ path and from the
\* REMOTE_ path generateConflictPaths makes of P, at any depth and also
\* when the file name of P itself starts with LOCAL_ or REMOTE_
C18_ConflictPathRoundTrip ==
    output # <<>> => /\ output[1].ofLocal = input
                     /\ output[1].ofRemote = input

\* a round trip was made for a path in a folder whose file name starts
\* with a conflict prefix
C18_Witness ==
    /\ output # <<>>
    /\ LastIndexOf(input, "/") > 0
    /\ isConflictFile(input)
    /\ output[1].paths.localPath # output[1].paths.remotePath

(***************************************************************************)
(* Exclude patterns against paths                                          *)
(***************************************************************************)
\* .o/**   **/*.l   t/*   *.l
GlobPatterns ==
    {<<".", "o", "/", "*", "*">>, <<"*", "*", "/", "*", ".", "l">>,
     <<"t", "/", "*">>, <<"*", ".", "l">>}

GlobSegments == {<<".", "o">>, <<"p">>, <<"m", ".", "j">>, <<"c", ".", "l">>, <<"t">>}

GlobPaths ==
    UNION {{JoinPath(sg) : sg \in [1..d -> GlobSegments]} : d \in 1..MaxDepth}

GlobInputs == [pattern : GlobPatterns, path : GlobPaths]

InitGlob ==
    /\ IdleEngine
    /\ input \in GlobInputs
    /\ output = <<>>

\* ChangeTracker.shouldExclude and SyncEngine.shouldExclude on one pattern
Filter ==
    /\ output = <<>>
    /\ output' = <<[tracker |-> matchesAny(<<input.pattern>>, input.path),
                    engine |-> matchesAny(<<input.pattern>>, input.path)]>>
    /\ UNCHANGED <<input, engineVars>>

NextGlob == Filter \/ NewInput(GlobInputs)

SpecGlob == InitGlob /\ [][NextGlob]_vars

\* the glob reading of a pattern: * takes characters of one segment,
\* ** takes any characters, slashes too, so any number of segments
RECURSIVE GlobMatch(_, _, _, _)
GlobMatch(pat, i, s, k) ==
    IF i > Len(pat) THEN k = Len(s) + 1
    ELSE IF pat[i] = "*" /\ i < Len(pat) /\ pat[i + 1] = "*" THEN
        \E m \in k..(Len(s) + 1) : GlobMatch(pat, i + 2, s, m)
    ELSE IF pat[i] = "*" THEN
        \E m \in k..(Len(s) + 1) :
            /\ \A n \in k..(m - 1) : s[n] # "/"
            /\ GlobMatch(pat, i + 1, s, m)
    ELSE
        /\ k <= Len(s)
        /\ s[k] = pat[i]
        /\ GlobMatch(pat, i + 1, s, k + 1)

\* C20: both filters exclude a path exactly when the pattern, read with *
\* as one path segment and ** as any number of segments, matches the
\* full relative path: .o/** excludes .o/p/m.j and **/*.l excludes p/t/c.l
C20_GlobSemantics ==
    output # <<>> =>
        /\ output[1].tracker = GlobMatch(input.pattern, 1, input.path, 1)
        /\ output[1].engine = GlobMatch(input.pattern, 1, input.path, 1)

(***************************************************************************)
(* SyncJournal as an object: the database handle and every method          *)
(***************************************************************************)
JournalPaths == {PathA, PathB}

JournalEntry(path, localHash, remoteHash, localMtime, remoteMtime, syncedAt, status) ==
    [path |-> path, localHash |-> localHash, remoteHash |-> remoteHash,
     localMtime |-> localMtime, remoteMtime |-> remoteMtime,
     syncedAt |-> syncedAt, status |-> status]

\* entries a caller hands to setEntry or importFromJson: one of a synced
\* file, one of a file the store has never held
EntrySamples ==
    {JournalEntry(p, hashContent("c0"), ETag("c0"), 1, 1, 1, "synced") : p \in JournalPaths}
    \cup {JournalEntry(p, hashContent("c0"), EmptyStr, 1, 0, 0, "new") : p \in JournalPaths}

\* a JSON text by what JSON.parse makes of it: a SyntaxError or an array
Json(valid, entries) == [valid |-> valid, entries |-> entries]

InvalidJson == Json(FALSE, <<>>)

JsonTexts == {InvalidJson, Json(TRUE, <<>>)} \cup {Json(TRUE, <<e>>) : e \in EntrySamples}

\* arg is the status, the metadata key or nothing
JournalCall(op, path, arg, entry, json, merge) ==
    [op |-> op, path |-> path, arg |-> arg, entry |-> entry, json |-> json,
     merge |-> merge]

NoCall == JournalCall("none", Undefined, "", NoEntry, InvalidJson, FALSE)

JournalReaders ==
    {"getAllEntries", "getStatusCounts", "getPendingEntries", "getConflictedEntries",
     "exportAsJson"}

JournalCalls ==
    {[NoCall EXCEPT !.op = op] : op \in JournalReaders \cup {"clear"}}
    \cup {[NoCall EXCEPT !.op = op, !.path = p] :
             op \in {"getEntry", "hasEntry", "deleteEntry", "markSynced", "markPending",
                     "markConflict", "markDeleted"},
             p \in JournalPaths}
    \cup {[NoCall EXCEPT !.op = "getEntriesByStatus", !.arg = st] :
             st \in {"synced", "conflict"}}
    \cup {[NoCall EXCEPT !.op = op, !.arg = "k"] : op \in {"getMetadata", "setMetadata"}}
    \cup {[NoCall EXCEPT !.op = "setEntry", !.entry = e] : e \in EntrySamples}
    \cup {[NoCall EXCEPT !.op = "importFromJson", !.json = js, !.merge = m] :
             js \in JsonTexts, m \in BOOLEAN}

JournalResult(ok, error, entries) == [ok |-> ok, error |-> error, entries |-> entries]

\* a method that starts with ensureInitialized, directly or by its first call
ensureInitialized(open, j, next) ==
    IF open THEN JournalResult(TRUE, "none", next)
    ELSE JournalResult(FALSE, "SyncJournal not initialized", j)

RECURSIVE setEntries(_, _, _)
setEntries(open, j, entries) ==
    IF entries = <<>> THEN JournalResult(TRUE, "none", j)
    ELSE LET put == ensureInitialized(open, j, setEntry(j, Head(entries)))
         IN IF put.ok THEN setEntries(open, put.entries, Tail(entries)) ELSE put

importFromJson(open, j, json, merge) ==
    IF ~json.valid THEN JournalResult(FALSE, "SyntaxError", j)
    ELSE LET cleared == IF merge THEN JournalResult(TRUE, "none", j)
                        ELSE ensureInitialized(open, j, EmptyMap)
         IN IF cleared.ok THEN setEntries(open, cleared.entries, json.entries) ELSE cleared

\* the arguments the writers are called with
CallHash == hashContent("c1")
CallRemoteHash == ETag("c2")

journalCall(open, j, call) ==
    CASE call.op = "importFromJson" -> importFromJson(open, j, call.json, call.merge)
      [] call.op = "setEntry" -> ensureInitialized(open, j, setEntry(j, call.entry))
      [] call.op = "deleteEntry" -> ensureInitialized(open, j, deleteEntry(j, call.path))
      [] call.op = "clear" -> ensureInitialized(open, j, EmptyMap)
      [] call.op = "markSynced" ->
            ensureInitialized(open, j,
                markSynced(j, call.path, CallHash, CallRemoteHash, DateNow, DateNow))
      [] call.op = "markPending" ->
            ensureInitialized(open, j, markPending(j, call.path, CallHash, DateNow))
      [] call.op = "markConflict" ->
            ensureInitialized(open, j, markConflict(j, call.path, CallHash, CallRemoteHash))
      [] call.op = "markDeleted" ->
            ensureInitialized(open, j, markDeletedPut(j, getEntry(j, call.path)))
      [] OTHER -> ensureInitialized(open, j, j)

\* the journal after its constructor: no database yet; the stored entries
\* are those an earlier session left
InitJournalObject ==
    /\ local = EmptyMap
    /\ remote = EmptyMap
    /\ journal \in {EmptyMap, InitJournal(PathA, "synced")}
    /\ isSyncing = FALSE
    /\ runs = [c \in CallIds |-> IdleFrame]
    /\ pendingChanges = EmptyMap
    /\ debounceFile = NoFile
    /\ trackerTasks = {}
    /\ isTracking = FALSE
    /\ edits = 0
    /\ faults = 0
    /\ stable = FALSE
    /\ planOut = <<>>
    /\ input = NoCall
    /\ output = [ok |-> TRUE, error |-> "none"]
    /\ sched = <<>>
    /\ orphanTimers = <<>>
    /\ db = FALSE
    /\ activeConflicts = NoConflicts

\* SyncJournal.initialize
Initialize ==
    /\ db' = TRUE
    /\ UNCHANGED <<local, remote, journal, isSyncing, runs, pendingChanges, debounceFile,
                   trackerTasks, isTracking, edits, faults, stable, planOut, input,
                   output, sched, orphanTimers, activeConflicts>>

\* SyncJournal.close
Close ==
    /\ db' = FALSE
    /\ UNCHANGED <<local, remote, journal, isSyncing, runs, pendingChanges, debounceFile,
                   trackerTasks, isTracking, edits, faults, stable, planOut, input,
                   output, sched, orphanTimers, activeConflicts>>

\* one method call, awaited to its end
JournalMethod(call) ==
    /\ input' = call
    /\ LET r == journalCall(db, journal, call)
       IN /\ output' = [ok |-> r.ok, error |-> r.error]
          /\ journal' = r.entries
    /\ UNCHANGED <<local, remote, isSyncing, runs, pendingChanges, debounceFile,
                   trackerTasks, isTracking, edits, faults, stable, planOut, sched,
                   orphanTimers, handlerVars>>

NextJournal ==
    \/ Initialize
    \/ Close
    \/ \E call \in JournalCalls : JournalMethod(call)

SpecJournal == InitJournalObject /\ [][NextJournal]_vars

\* a method has just been called
JournalStep == input' # input \/ output' # output \/ journal' # journal

\* the call parses its argument before it touches the database, and the
\* argument does not parse
ParseFails(call) == call.op = "importFromJson" /\ ~call.json.valid

\* C21: no journal method called while the database is not open completes:
\* it fails with the initialization error (a text that does not parse may
\* fail on that first) and leaves the stored entries as they were
C21_ClosedJournalFails ==
    [][(JournalStep /\ ~db) =>
          /\ ~output'.ok
          /\ output'.error = "SyncJournal not initialized" \/ ParseFails(input')
          /\ journal' = journal]_vars

\* the method op has just run on an open journal
Ran(op) == db /\ db' /\ JournalStep /\ input'.op = op

\* the fields of the entry of path are what they were
Kept(path, fields) ==
    getEntry(journal, path) # NoEntry =>
        \A f \in fields : getEntry(journal', path)[f] = getEntry(journal, path)[f]

OthersKept(path) ==
    \A q \in JournalPaths \ {path} : getEntry(journal', q) = getEntry(journal, q)

\* C22: markPending keeps remoteHash, remoteMtime and syncedAt of the prior
\* entry, markConflict keeps its localMtime, remoteMtime and syncedAt, and
\* neither changes the entry of another path
C22_MarkPreservesFields ==
    [][/\ Ran("markPending") =>
            /\ Kept(input'.path, {"remoteHash", "remoteMtime", "syncedAt"})
            /\ OthersKept(input'.path)
       /\ Ran("markConflict") =>
            /\ Kept(input'.path, {"localMtime", "remoteMtime", "syncedAt"})
            /\ OthersKept(input'.path)]_vars

\* C23: when a sync run returns with path P among its conflicts, the
\* conflict handler's active-conflict set holds P with the artifact paths
\* generateConflictPaths(P)
C23_ConflictDelegated ==
    \A c \in CallIds :
        runs[c].pc = "done" =>
            \A i \in 1..Len(runs[c].result.conflicts) :
                LET P == runs[c].result.conflicts[i]
                IN /\ P \in DOMAIN activeConflicts
                   /\ activeConflicts[P].localPath = generateConflictPaths(P).localPath
                   /\ activeConflicts[P].remotePath = generateConflictPaths(P).remotePath

(***************************************************************************)
(* ConflictHandler as an object over the vault and the journal             *)
(***************************************************************************)
HandlerPaths == {PathA, PathB}
HandlerContents == {"c1", "c2"}

ConflictInfo(path, localPath, remotePath, detectedAt) ==
    [path |-> path, localPath |-> localPath, remotePath |-> remotePath,
     detectedAt |-> detectedAt, resolved |-> FALSE]

\* vault, journal and active conflicts as one value
Handler(w, active) == [w |-> w, active |-> active]

HandlerResult(h, ok, failedAt) == [h |-> h, ok |-> ok, failedAt |-> failedAt]

\* ConflictHandler.handleConflict; f is the await that rejects (0: none):
\* 1 the rename or create of the LOCAL_ file, 2 the create of the REMOTE_
\* file, 3 journal.markConflict.  vault.rename and vault.create reject when
\* the target exists.
handlerHandleConflict(h, path, localContent, remoteContent, f) ==
    LET names == generateConflictPaths(path)
        w1 == IF path \in DOMAIN h.w.local
              THEN vaultRename(h.w, path, names.localPath)
              ELSE vaultCreate(h.w, names.localPath, localContent)
        w2 == vaultCreate(w1, names.remotePath, remoteContent)
        info == ConflictInfo(path, names.localPath, names.remotePath, DateNow)
        active == Put(h.active, path, info)
        w3 == [w2 EXCEPT !.journal = markConflict(@, path, EmptyStr, EmptyStr)]
    IN IF f = 1 \/ names.localPath \in DOMAIN h.w.local
       THEN HandlerResult(h, FALSE, "localArtifact")
       ELSE IF f = 2 \/ names.remotePath \in DOMAIN w1.local
       THEN HandlerResult(Handler(w1, h.active), FALSE, "remoteArtifact")
       ELSE IF f = 3
       THEN HandlerResult(Handler(w2, active), FALSE, "markConflict")
       ELSE HandlerResult(Handler(w3, active), TRUE, "none")

\* a markResolved that also removes the two artifact files
markResolvedWithArtifacts(h, path, f) ==
    LET names == generateConflictPaths(path)
        active == Del(h.active, path)
        files == Del(Del(h.w.local, names.localPath), names.remotePath)
    IN IF f = 1 THEN HandlerResult(Handler(h.w, active), FALSE, "deleteEntry")
       ELSE HandlerResult(
                Handler([h.w EXCEPT !.journal = deleteEntry(@, path), !.local = files],
                        active),
                TRUE, "none")

\* ConflictHandler.markResolved; f = 1: journal.deleteEntry rejects
markResolved(h, path, f) ==
    LET active == Del(h.active, path)
    IN IF f = 1 THEN HandlerResult(Handler(h.w, active), FALSE, "deleteEntry")
       ELSE HandlerResult(
                Handler([h.w EXCEPT !.journal = deleteEntry(@, path)], active),
                TRUE, "none")

getConflictedEntries(j) == {j[p] : p \in {q \in DOMAIN j : j[q].status = "conflict"}}

\* ConflictHandler.loadConflictsFromJournal: the map after the loop
loadConflictsFromJournal(h) ==
    LET entries == getConflictedEntries(h.w.journal)
    IN [p \in (DOMAIN h.active) \cup {e.path : e \in entries} |->
          IF \E e \in entries : e.path = p
          THEN LET e == CHOOSE x \in entries : x.path = p
                   names == generateConflictPaths(p)
               IN ConflictInfo(p, names.localPath, names.remotePath, e.syncedAt)
          ELSE h.active[p]]

HandlerCall(op, path, f) == [op |-> op, path |-> path, f |-> f]

InitHandler ==
    /\ local \in {(PathA :> File("c1", 1)) @@ (PathB :> File("c1", 1)),
                  (PathA :> File("c1", 1))}
    /\ remote = EmptyMap
    /\ journal \in {EmptyMap, markConflict(EmptyMap, PathB, hashContent("c1"), ETag("c2"))}
    /\ isSyncing = FALSE
    /\ runs = [c \in CallIds |-> IdleFrame]
    /\ pendingChanges = EmptyMap
    /\ debounceFile = NoFile
    /\ trackerTasks = {}
    /\ isTracking = FALSE
    /\ edits = 0
    /\ faults = 0
    /\ stable = FALSE
    /\ planOut = <<>>
    /\ input = HandlerCall("constructor", Undefined, 0)
    /\ output = [ok |-> TRUE, failedAt |-> "none"]
    /\ sched = <<>>
    /\ orphanTimers = <<>>
    /\ db = TRUE
    /\ activeConflicts = NoConflicts

HandlerFrame ==
    UNCHANGED <<isSyncing, runs, edits, faults, stable, planOut, sched, orphanTimers, db>>

\* the outcome of a method becomes the state
HandlerReturns(call, r) ==
    /\ input' = call
    /\ output' = [ok |-> r.ok, failedAt |-> r.failedAt]
    /\ SetWorld(r.h.w)
    /\ activeConflicts' = r.h.active
    /\ HandlerFrame

HandleConflict(path, localContent, remoteContent, f) ==
    HandlerReturns(HandlerCall("handleConflict", path, f),
                   handlerHandleConflict(Handler(World, activeConflicts), path,
                                         localContent, remoteContent, f))

MarkResolved(path, f) ==
    HandlerReturns(HandlerCall("markResolved", path, f),
                   markResolved(Handler(World, activeConflicts), path, f))

LoadConflicts ==
    HandlerReturns(HandlerCall("loadConflictsFromJournal", Undefined, 0),
                   HandlerResult(Handler(World, loadConflictsFromJournal(
                                     Handler(World, activeConflicts))),
                                 TRUE, "none"))

\* the plugin is loaded again: onload builds its objects anew and opens the
\* journal; it builds no ConflictHandler and loads no conflicts
Onload ==
    HandlerReturns(HandlerCall("onload", Undefined, 0),
                   HandlerResult(Handler(World, NoConflicts), TRUE, "none"))

NextHandler ==
    \/ \E p \in HandlerPaths, f \in 0..3 : HandleConflict(p, "c1", "c2", f)
    \/ \E p \in HandlerPaths, f \in 0..1 : MarkResolved(p, f)
    \/ LoadConflicts
    \/ Onload

SpecHandler == InitHandler /\ [][NextHandler]_vars

\* the method op has just returned
HandlerStep(op) ==
    /\ input'.op = op
    /\ <<input, output, local, journal, activeConflicts>>'
          # <<input, output, local, journal, activeConflicts>>

ConflictPaths(j) == {p \in DOMAIN j : j[p].status = "conflict"}

\* C24: after startup the active-conflict set is exactly the set of paths
\* whose journal status is conflict, each with the artifact paths
\* generateConflictPaths gives, so that a conflict recorded before a
\* restart is active after it
C24_ConflictsRehydrated ==
    [][HandlerStep("onload") =>
          /\ DOMAIN activeConflicts' = ConflictPaths(journal')
          /\ \A p \in DOMAIN activeConflicts' :
                /\ activeConflicts'[p].localPath = generateConflictPaths(p).localPath
                /\ activeConflicts'[p].remotePath = generateConflictPaths(p).remotePath]_vars

\* C25: markResolved(P) removes the record of P and deletes the journal
\* entry of P; it leaves every file of the vault, the LOCAL_ and REMOTE_
\* artifacts among them, and the record and journal entry of every other
\* path as they were
C25_MarkResolvedFrame ==
    [][HandlerStep("markResolved") =>
          LET P == input'.path
          IN /\ P \notin DOMAIN activeConflicts'
             /\ output'.ok => getEntry(journal', P) = NoEntry
             /\ local' = local
             /\ \A q \in HandlerPaths \ {P} :
                   /\ getEntry(journal', q) = getEntry(journal, q)
                   /\ q \in DOMAIN activeConflicts' <=> q \in DOMAIN activeConflicts
                   /\ q \in DOMAIN activeConflicts =>
                         activeConflicts'[q] = activeConflicts[q]]_vars

\* the conflict of d/a was resolved while its two artifacts are in the
\* vault and the conflict of b is still active
C25_Witness ==
    /\ input = HandlerCall("markResolved", PathA, 0)
    /\ output.ok
    /\ PathA \notin DOMAIN activeConflicts
    /\ PathA \notin DOMAIN journal
    /\ {LocalArtifactOfA, RemoteArtifactOfA} \subseteq DOMAIN local
    /\ PathB \in DOMAIN activeConflicts
    /\ getEntry(journal, PathB).status = "conflict"

\* C30: handleConflict writes the LOCAL_ artifact, then the REMOTE_
\* artifact, then calls journal.markConflict and only then registers the
\* in-memory record: a call that fails at a step has done the steps before
\* it and none after it, so when markConflict fails no record of the path
\* exists
C30_HandleConflictSequence ==
    [][HandlerStep("handleConflict") =>
          LET P == input'.path
              names == generateConflictPaths(P)
          IN /\ output'.failedAt = "localArtifact" =>
                   /\ local' = local /\ journal' = journal
                   /\ activeConflicts' = activeConflicts
             /\ output'.failedAt = "remoteArtifact" =>
                   /\ names.localPath \in DOMAIN local'
                   /\ names.remotePath \in DOMAIN local' <=> names.remotePath \in DOMAIN local
                   /\ journal' = journal
                   /\ activeConflicts' = activeConflicts
             /\ output'.failedAt = "markConflict" =>
                   /\ {names.localPath, names.remotePath} \subseteq DOMAIN local'
                   /\ journal' = journal
                   /\ P \notin DOMAIN activeConflicts'
             /\ output'.ok =>
                   /\ {names.localPath, names.remotePath} \subseteq DOMAIN local'
                   /\ getEntry(journal', P).status = "conflict"
                   /\ P \in DOMAIN activeConflicts']_vars

(***************************************************************************)
(* Properties of the running plugin: edits, deletions and conflicts        *)
(* across sync runs                                                        *)
(***************************************************************************)
\* the vault file d/a was synced, then edited, and the tracker has written
\* the edit to the journal (the debounce timer fired, markPending is done);
\* the object still holds the content of the last sync
EditProcessed ==
    /\ PathA \in DOMAIN local
    /\ KeyOfA \in DOMAIN remote
    /\ debounceFile = NoFile
    /\ trackerTasks = {}
    /\ LET entry == getEntry(journal, PathA)
       IN /\ entry.status = "pending"
          /\ Truthy(entry.remoteHash)
          /\ entry.localHash = hashContent(local[PathA].content)
          /\ ContentOf(entry.remoteHash) = remote[KeyOfA].content
          /\ local[PathA].content # remote[KeyOfA].content

\* C31: a run that plans while a processed local edit of a synced file is
\* waiting and the object is unchanged plans the upload of the file, and
\* when the upload completes the object holds the edited content, which the
\* vault still holds
C31_EditUploaded ==
    [][\A c \in CallIds :
          /\ (PlanStep(c) /\ ~runs[c].dirty /\ EditProcessed)
                => HasItem(runs'[c].plan, PathA, "upload")
          /\ (ItemStep(c) /\ EditProcessed /\ Last(runs'[c].log).path = PathA
              /\ Last(runs'[c].log).ok)
                => /\ Last(runs'[c].log).action = "upload"
                   /\ PathA \in DOMAIN local'
                   /\ local'[PathA].content = local[PathA].content
                   /\ remote'[KeyOfA].content = local[PathA].content]_vars

\* the digest markSynced recorded as localHash at the last sync of an entry:
\* uploadFile and downloadFile pass one digest as localHash and remoteHash,
\* and markPending and markDeleted keep remoteHash
SyncedLocalHash(entry) ==
    IF entry # NoEntry /\ entry.status # "conflict" /\ Truthy(entry.remoteHash)
    THEN entry.remoteHash
    ELSE Undefined

\* the vault file at path differs from what the last sync of the path left
LocallyEdited(path) ==
    /\ path \in DOMAIN local
    /\ SyncedLocalHash(getEntry(journal, path)) # Undefined
    /\ hashContent(local[path].content) # SyncedLocalHash(getEntry(journal, path))

\* C32: no run executes download or delete-local on a path whose vault
\* file differs from the content of the path's last sync; such a path is
\* uploaded or handled as a conflict
C32_NoEditLost ==
    [][\A c \in CallIds :
          (ItemStep(c) /\ Last(runs'[c].log).ok
           /\ LocallyEdited(Last(runs'[c].log).path))
              => Last(runs'[c].log).action \in {"upload", "conflict"}]_vars

\* markSynced has written the entry at some time: it is the only writer of
\* a remoteHash to an entry that is not a conflict, and markPending and
\* markDeleted keep the remoteHash they find
EverSynced(entry) == SyncedLocalHash(entry) # Undefined

\* C33: a run deletes an object only when the path was synced before; an
\* entry that markPending created for a file that was never synced does not
\* lead to delete-remote
C33_DeleteRemoteOnlySynced ==
    [][\A c \in CallIds :
          (ItemStep(c) /\ Last(runs'[c].log).ok
           /\ Last(runs'[c].log).action = "delete-remote"
           /\ localPathToS3Key(Last(runs'[c].log).path) \in DOMAIN remote)
              => EverSynced(getEntry(journal, Last(runs'[c].log).path))]_vars

\* the paths the journal holds as conflicts
InConflict == {p \in DOMAIN journal : journal[p].status = "conflict"}

\* C34: while the journal holds a path as a conflict, no run executes
\* upload, download, delete-local or delete-remote on it, and the plan items
\* a run executes keep its object and its conflict status
C34_ConflictStable ==
    [][\A c \in CallIds :
          ItemStep(c) =>
              \A p \in InConflict :
                  /\ Last(runs'[c].log).path = p =>
                        Last(runs'[c].log).action \notin
                            {"upload", "download", "delete-local", "delete-remote"}
                  /\ localPathToS3Key(p) \in DOMAIN remote =>
                        localPathToS3Key(p) \in DOMAIN remote'
                  /\ getEntry(journal', p).status = "conflict"]_vars

\* the plan item just executed renamed the vault file at path to its LOCAL_
\* artifact
RenamedToLocal(path) ==
    /\ path \in DOMAIN local
    /\ path \notin DOMAIN local'
    /\ conflictLocalPath(path) \notin DOMAIN local
    /\ conflictLocalPath(path) \in DOMAIN local'

\* C35: a conflict action that has renamed the file to its LOCAL_ artifact
\* has also created the REMOTE_ artifact and set the journal status of the
\* path to conflict, also when fetching the object or creating the REMOTE_
\* file fails
C35_ConflictAllOrNothing ==
    [][\A c \in CallIds :
          (ItemStep(c) /\ RenamedToLocal(Last(runs'[c].log).path)) =>
              /\ conflictRemotePath(Last(runs'[c].log).path) \in DOMAIN local'
              /\ getEntry(journal', Last(runs'[c].log).path).status = "conflict"]_vars


\* the step in which call c returns from its try block or its catch
FinishStep(c) == runs[c].pc \in ActivePcs /\ runs'[c].pc = "done"

\* the ledger holds a change of path p that the vault listing of call c did
\* not see: the file is not what the listing found
ChangedSinceEnumeration(c, p) ==
    /\ p \in DOMAIN pendingChanges
    /\ runs[c].pc \in {"enumRemote", "enumJournal", "exec"}
    /\ LET listed == p \in DOMAIN runs[c].map.states
                     /\ runs[c].map.states[p].localExists
       IN IF p \in DOMAIN local
          THEN ~listed
               \/ runs[c].map.states[p].localHash # hashContent(local[p].content)
          ELSE listed

\* the step leaves the store with what the vault held at p before it
Reflected(p) ==
    IF p \in DOMAIN local
    THEN /\ localPathToS3Key(p) \in DOMAIN remote'
         /\ remote'[localPathToS3Key(p)].content = local[p].content
    ELSE localPathToS3Key(p) \notin DOMAIN remote'

\* C38: a pending change that was recorded after the run's enumeration and
\* that the run has not carried to the store is still in the ledger when
\* the run completes
C38_LateChangeKept ==
    [][\A c \in CallIds :
          FinishStep(c) =>
              \A p \in DOMAIN pendingChanges :
                  (ChangedSinceEnumeration(c, p) /\ ~Reflected(p))
                      => p \in DOMAIN pendingChanges']_vars


\* C39: the single-flight flag is released when a run returns, whether it
\* succeeded, had failed actions or aborted in enumeration, so that the
\* flag is set only while a run is active and a later call is accepted; a
\* call rejected because a run is in progress leaves the flag of that run set
C39_FlagReleased ==
    /\ \A c \in CallIds : runs[c].pc = "done" => ~isSyncing
    /\ (\A c \in CallIds : runs[c].pc \notin ActivePcs) => ~isSyncing
    /\ \A c \in CallIds :
          runs[c].pc = "rejected" =>
              /\ isSyncing
              /\ \E d \in CallIds : runs[d].pc \in ActivePcs

\* a run has returned with a failed action and the flag is released
C39_Witness ==
    \E c \in CallIds :
        /\ runs[c].pc = "done"
        /\ Planned(c)
        /\ runs[c].result.errors # <<>>
        /\ ~runs[c].result.success
        /\ ~isSyncing


\* the plan items a result accounts for
Counted(result) ==
    result.filesUploaded + result.filesDownloaded + result.filesDeleted
    + Len(result.conflicts) + Len(result.errors)

\* C40: a run that reaches execution counts each plan item once: uploads,
\* downloads, deletions, conflicts and errors add up to the items executed
\* so far and to the length of the plan when the run returns, and success
\* is true exactly when there is no error
C40_ResultAccounting ==
    \A c \in CallIds :
        /\ runs[c].pc = "exec" => Counted(runs[c].result) = runs[c].idx - 1
        /\ (runs[c].pc = "done" /\ ~Aborted(c)) =>
              /\ Counted(runs[c].result) = Len(runs[c].plan)
              /\ runs[c].result.success <=> runs[c].result.errors = <<>>

\* a run of three items has returned: one failed, one was an upload and one
\* a deletion
C40_Witness ==
    \E c \in CallIds :
        /\ runs[c].pc = "done"
        /\ Len(runs[c].plan) = 3
        /\ Len(runs[c].result.errors) = 1
        /\ runs[c].result.filesUploaded = 1
        /\ runs[c].result.filesDeleted = 1

(***************************************************************************)
(* Specification of a rename in the vault: the synced file d/a is renamed  *)
(* to b, with change tracking on or off, and sync runs follow              *)
(***************************************************************************)
KeyOfB == <<"v", "/", "b">>

\* the user renames a file while no run is in progress
UserRename(oldPath, path) ==
    /\ EnvStep
    /\ ~isSyncing
    /\ oldPath \in DOMAIN local
    /\ path \notin DOMAIN local
    /\ SetWorld(vaultRename(World, oldPath, path))

InitRename ==
    /\ local = InitLocal(PathA, "synced")
    /\ remote = InitRemote(PathA, "synced")
    /\ journal = InitJournal(PathA, "synced")
    /\ isSyncing = FALSE
    /\ runs = [c \in CallIds |-> IdleFrame]
    /\ pendingChanges = EmptyMap
    /\ debounceFile = NoFile
    /\ trackerTasks = {}
    /\ isTracking \in BOOLEAN
    /\ edits = 0
    /\ faults = 0
    /\ stable = FALSE
    /\ planOut = <<>>
    /\ input = <<>>
    /\ output = <<>>
    /\ sched = <<>>
    /\ orphanTimers = <<>>
    /\ db = TRUE
    /\ activeConflicts = NoConflicts

NextRename ==
    \/ UserRename(PathA, PathB)
    \/ \E c \in CallIds : SyncCall(c)
    \/ \E c \in CallIds : EnumLocal(c)
    \/ \E c \in CallIds : EnumRemote(c)
    \/ \E c \in CallIds : EnumJournal(c)
    \/ \E c \in CallIds, f \in 0..5 : ExecItem(c, f)
    \/ \E c \in CallIds : Return(c)
    \/ DebounceFire
    \/ \E t \in trackerTasks : TrackerTask(t)

SpecRename == InitRename /\ [][NextRename]_vars

\* C36: after the rename of the synced file d/a to b, a run without errors
\* leaves the content at b in the vault and in the store and at d/a in
\* neither, and has not downloaded d/a
C36_RenamePropagated ==
    \A c \in CallIds :
        (/\ runs[c].pc = "done"
         /\ edits >= 1
         /\ ~runs[c].dirty
         /\ runs[c].result.errors = <<>>) =>
            /\ PathB \in DOMAIN local /\ local[PathB].content = "c0"
            /\ KeyOfB \in DOMAIN remote /\ remote[KeyOfB].content = "c0"
            /\ PathA \notin DOMAIN local
            /\ KeyOfA \notin DOMAIN remote
            /\ ~\E i \in 1..Len(runs[c].log) :
                   runs[c].log[i].path = PathA /\ runs[c].log[i].action = "download"

====
